---- MODULE Spec2Model ----
(***************************************************************************)
(* A model of transfer.py: one sender session (send_files) and one         *)
(* receiver session (receive_files) over one TCP connection, with the      *)
(* receiver's writers (FileWriter, LazyFileWriterDict), its lock manager   *)
(* (TransferLockManager) and the output directory.  A session may be       *)
(* followed by another one over the same output directory (a receiver      *)
(* killed mid-stream and run again).                                       *)
(*                                                                         *)
(* Abstractions.  Bytes are small integers.  SHA-256 is collision free:    *)
(* a digest is the record [sha |-> message].  AEAD is perfect: a record    *)
(* decrypts exactly under the key it was encrypted with.  blosc output is  *)
(* the record format "blosc", which is never valid JSON and is the only    *)
(* thing blosc.decompress accepts.  Sizes are scaled: the 1 MiB block, the *)
(* 64 KiB read and the 10 MiB lock-update stride become BufferSize,        *)
(* ReadSize and LockUpdateEvery bytes.                                     *)
(***************************************************************************)
EXTENDS Integers, Sequences, FiniteSets, TLC

\* ------------------------------------------------------------- bounds
MaxRuns == 2          \* sessions over the same output directory
MaxClientMsgs == 2    \* control records a foreign client sends

\* ------------------------------------------------- program constants
BufferSize == 2            \* buffer_size = 1024 * 1024, scaled
ReadSize == 1              \* f.read(64 * 1024), scaled
LockUpdateEvery == 4       \* 10 * 1024 * 1024, scaled
MAX_RETRY_ATTEMPTS == 3
max_pending == 2           \* _max_pending = 150, scaled

Min(a, b) == IF a < b THEN a ELSE b

\* ------------------------------------------------------------ inputs
\* "{}" is the two bytes 123, 125: the one JSON document over these bytes
\* that fits in a block.
Bytes == {0, 1, 123, 125}
OldData == <<7>>           \* content of a file already in the output directory

File(n, d) == [name |-> n, data |-> d]

Batches ==
  { << File("a", <<0, 1, 0>>) >>,
    << File("a", <<>>), File("b", <<1>>) >>,
    << File("a", <<123, 125>>) >>,
    << File("a", <<0, 0, 0, 0, 0>>), File("b", <<1>>) >>,
    << File("a", <<0, 1, 1, 0, 1>>), File("b", <<1>>) >>,
    << File("a", <<0, 1, 0, 1, 123, 125>>) >> }

Names == {"a", "b", "c"}
SenderToken == "tok"
Tokens == {"tok", "bad"}

\* os.path.isabs(filename) or ".." in filename, on the names of the model
UnsafeNames == {"../e", "/e"}
IsUnsafe(filename) == filename \in UnsafeNames

\* ------------------------------------------------------------ crypto
NoKey == <<>>
\* token.encode(): the token's bytes, salt of the HKDF and suffix of the
\* challenge pre-image
TokenBytes(token) == token
\* a faulty derivation that leaves the token out of the HKDF
DeriveSessionKeyUnsalted(token) == <<"hkdf", "">>
\* derive_session_key: HKDF(ECDH secret, salt = token); the two sides hold
\* the same ECDH secret, so the key is decided by the token
DeriveSessionKey(token) == <<"hkdf", TokenBytes(token)>>
Keys == {DeriveSessionKey(t) : t \in Tokens}
Sha256(m) == [sha |-> m]
NoHash == [set |-> FALSE, v |-> Sha256(<<>>)]
SomeHash(h) == [set |-> TRUE, v |-> h]
Challenge == "challenge"
\* hashlib.sha256(challenge + token.encode()).digest()
ChallengeResponse(challenge, token) == Sha256(<<challenge, TokenBytes(token)>>)

\* payloads
Raw(bytes) == [fmt |-> "raw", bytes |-> bytes]
Blosc(bytes) == [fmt |-> "blosc", bytes |-> bytes]
Json(obj) == [fmt |-> "json", obj |-> obj]
Compress(use_compression, bytes) ==
  IF use_compression THEN Blosc(bytes) ELSE Raw(bytes)

\* json.loads(data.decode()) gives a dict whose keys are all strings
ParsesAsJsonDict(pt) ==
  \/ pt.fmt = "json"
  \/ pt.fmt = "raw" /\ pt.bytes = <<123, 125>>
\* the dict it gives, as a hash map
EmptyMap == [n \in {} |-> Sha256(<<>>)]
ParsedHashMap(pt) ==
  IF pt.fmt = "json" /\ "map" \in DOMAIN pt.obj THEN pt.obj.map ELSE EmptyMap

\* ---------------------------------------------------------- metadata
RECURSIVE SumSizes(_)
SumSizes(files) ==
  IF files = <<>> THEN 0
  ELSE Len(files[1].data) + SumSizes(Tail(files))

\* a loop that never advances current_offset
RECURSIVE FilesMetadataNoAdvance(_, _)
FilesMetadataNoAdvance(files, current_offset) ==
  IF files = <<>> THEN <<>>
  ELSE << [filename |-> files[1].name,
           size |-> Len(files[1].data),
           offset |-> current_offset] >>
       \o FilesMetadataNoAdvance(Tail(files), current_offset)

\* files_metadata of send_files: cumulative offsets in list order
RECURSIVE FilesMetadata(_, _)
FilesMetadata(files, current_offset) ==
  IF files = <<>> THEN <<>>
  ELSE << [filename |-> files[1].name,
           size |-> Len(files[1].data),
           offset |-> current_offset] >>
       \o FilesMetadata(Tail(files), current_offset + Len(files[1].data))

BatchMetadata(files, use_compression) ==
  [type |-> "stream",
   file_count |-> Len(files),
   total_size |-> SumSizes(files),
   compressed |-> use_compression,
   files |-> FilesMetadata(files, 0)]

\* metadata a sender other than send_files may put on the wire: an unsafe
\* path, offsets out of order or overlapping, one path twice, another type
Info(filename, size, offset) ==
  [filename |-> filename, size |-> size, offset |-> offset]
Metadata(type, total_size, files_info) ==
  [type |-> type, file_count |-> Len(files_info), total_size |-> total_size,
   compressed |-> FALSE, files |-> files_info]
ServerMetadatas ==
  { Metadata("stream", 2, <<Info("../e", 1, 0), Info("a", 1, 1)>>),
    Metadata("stream", 1, <<Info("/e", 1, 0)>>),
    Metadata("stream", 2, <<Info("a", 1, 1), Info("b", 1, 0)>>),
    Metadata("stream", 3, <<Info("a", 2, 0), Info("b", 1, 1)>>),
    Metadata("stream", 3, <<Info("a", 1, 0), Info("a", 2, 1)>>),
    Metadata("batch", 1, <<Info("a", 1, 0)>>) }

NoMetadata ==
  [type |-> "none", file_count |-> 0, total_size |-> 0,
   compressed |-> FALSE, files |-> <<>>]

FileNames(files_info) == {files_info[i].filename : i \in 1..Len(files_info)}
\* a dictionary built from the list keeps the last entry of a name
InfoOf(files_info, filename) ==
  LET hits == {i \in 1..Len(files_info) : files_info[i].filename = filename}
  IN files_info[CHOOSE i \in hits : \A j \in hits : j <= i]

\* get_current_file_info: linear scan, 0 when no file holds the position
GetCurrentFileInfo(stream_position, files_metadata) ==
  LET hits == {i \in 1..Len(files_metadata) :
                 /\ files_metadata[i].offset <= stream_position
                 /\ stream_position < files_metadata[i].offset + files_metadata[i].size}
  IN IF hits = {} THEN 0 ELSE CHOOSE i \in hits : \A j \in hits : i <= j

\* ------------------------------------------------- output directory
NoFile == [exists |-> FALSE, data |-> <<>>]
FileOf(data) == [exists |-> TRUE, data |-> data]
AllNames == Names \cup UnsafeNames
\* final paths of a name: slot 0 is the name itself, slot n is stem_n.suffix
RenameSlots == 0..MaxRuns

\* --------------------------------------------------- TransferLockManager
LockEntry(status, size, transferred_bytes, partial_hash) ==
  [status |-> status, size |-> size,
   transferred_bytes |-> transferred_bytes, partial_hash |-> partial_hash]
NoLock == [present |-> FALSE, files |-> [n \in {} |-> LockEntry("pending", 0, 0, NoHash)]]

\* __init__
NewLockManager ==
  [lock_data |-> NoLock, pending |-> {}, saved_once |-> FALSE,
   defer_mode |-> FALSE, deferred |-> <<>>]

\* The receiver's objects and files, W: writers, writer_order, lm (the lock
\* manager), lock_file (the lock file on disk), parts, finals, overwrite_mode.

\* _save_lock_file: the lock file becomes the document in memory
SaveLockFile(W) ==
  IF ~W.lm.lock_data.present THEN W
  ELSE [W EXCEPT !.lock_file = W.lm.lock_data]

\* _flush_pending_updates
FlushPendingUpdates(W) ==
  IF W.lm.pending # {}
  THEN [SaveLockFile(W) EXCEPT !.lm.pending = {}, !.lm.saved_once = TRUE]
  ELSE W

\* update_file_status, lines 1328-1340: the entry in memory and the buffer
BufferUpdate(W, filename, status, transferred_bytes, partial_hash) ==
  [W EXCEPT
     !.lm.lock_data.files[filename].status = status,
     !.lm.lock_data.files[filename].transferred_bytes = transferred_bytes,
     !.lm.lock_data.files[filename].partial_hash =
         IF partial_hash.set THEN partial_hash ELSE @,
     !.lm.pending = @ \cup {filename}]

\* a flush condition that forgets the failed status
MustFlushNoFailed(pending, status, force_save, elapsed) ==
  \/ force_save
  \/ status = "completed"
  \/ Cardinality(pending) >= max_pending
  \/ elapsed

\* update_file_status, lines 1343-1348; elapsed:
\* current_time - _last_save_time >= _save_interval
MustFlush(pending, status, force_save, elapsed) ==
  \/ force_save
  \/ status = "completed"
  \/ status = "failed"
  \/ Cardinality(pending) >= max_pending
  \/ elapsed

\* _last_save_time starts at 0: until the first flush the interval has passed
Elapsed(lock_manager, elapsed) == elapsed \/ ~lock_manager.saved_once

\* update_file_status as the writers call it (force_save is never passed)
UpdateFileStatus(W, filename, status, transferred_bytes, partial_hash, elapsed) ==
  IF ~W.lm.lock_data.present \/ filename \notin DOMAIN W.lm.lock_data.files
  THEN W
  ELSE IF W.lm.defer_mode
  THEN [W EXCEPT !.lm.deferred =
          Append(@, [filename |-> filename, status |-> status,
                     transferred_bytes |-> transferred_bytes,
                     partial_hash |-> partial_hash])]
  ELSE LET W1 == BufferUpdate(W, filename, status, transferred_bytes, partial_hash)
       IN IF MustFlush(W1.lm.pending, status, FALSE, Elapsed(W.lm, elapsed))
          THEN FlushPendingUpdates(W1)
          ELSE W1

\* create_lock_file, lines 1257-1279: every incoming file pending
NewLockData(file_list) ==
  [present |-> TRUE,
   files |-> [n \in FileNames(file_list) |->
                LockEntry("pending", InfoOf(file_list, n).size, 0, NoHash)]]

\* create_lock_file: the document is saved at once
CreateLockFile(W, file_list) ==
  SaveLockFile([W EXCEPT !.lm.lock_data = NewLockData(file_list)])

\* cleanup_on_completion
CleanupOnCompletion(W) == [W EXCEPT !.lock_file = NoLock]

\* get_resume_plan, without the size comparison
GetResumePlanNoSizeCheck(lock_data, incoming_files) ==
  LET inc == FileNames(incoming_files)
      listed == {n \in DOMAIN lock_data.files : n \in inc}
      done == {n \in listed : lock_data.files[n].status = "completed"}
      partial == {n \in listed \ done :
                    /\ lock_data.files[n].status = "in_progress"
                    /\ lock_data.files[n].transferred_bytes > 0}
  IN [completed_files |-> done,
      resume_files |-> [n \in partial |-> lock_data.files[n].transferred_bytes],
      fresh_files |-> (listed \ (done \cup partial))
                        \cup {n \in inc : n \notin DOMAIN lock_data.files}]

\* get_resume_plan: one pass over the lock's entries that are in the incoming
\* list (a changed size is fresh, then completed, then in_progress with bytes,
\* else fresh), then the incoming files the lock does not know
GetResumePlan(lock_data, incoming_files) ==
  LET inc == FileNames(incoming_files)
      listed == {n \in DOMAIN lock_data.files : n \in inc}
      resized == {n \in listed :
                    lock_data.files[n].size # InfoOf(incoming_files, n).size}
      done == {n \in listed \ resized : lock_data.files[n].status = "completed"}
      partial == {n \in listed \ (resized \cup done) :
                    /\ lock_data.files[n].status = "in_progress"
                    /\ lock_data.files[n].transferred_bytes > 0}
  IN [completed_files |-> done,
      resume_files |-> [n \in partial |-> lock_data.files[n].transferred_bytes],
      fresh_files |-> resized
                        \cup (listed \ (resized \cup done \cup partial))
                        \cup {n \in inc : n \notin DOMAIN lock_data.files}]


\* ------------------------------------------------------------ FileWriter
\* __init__
NewWriter(size, offset) ==
  [created |-> TRUE, size |-> size, offset |-> offset, written |-> 0,
   hasher |-> <<>>, is_complete |-> FALSE, needs_rehash |-> FALSE]
NoWriter == [NewWriter(0, 0) EXCEPT !.created = FALSE]

\* open_for_writing
OpenForWriting(W, filename, resume_bytes, elapsed) ==
  LET wr == W.writers[filename]
      fresh == UpdateFileStatus(
                 [W EXCEPT !.writers[filename].written = 0,
                           !.writers[filename].hasher = <<>>],
                 filename, "pending", 0, NoHash, elapsed)
  IN IF resume_bytes > 0 /\ W.parts[filename].exists
     THEN IF Len(W.parts[filename].data) = resume_bytes /\ resume_bytes < wr.size
          THEN UpdateFileStatus(
                 [W EXCEPT !.writers[filename].written = resume_bytes,
                           !.writers[filename].needs_rehash = TRUE],
                 filename, "in_progress", resume_bytes, NoHash, elapsed)
          ELSE fresh
     ELSE IF resume_bytes >= wr.size
     THEN UpdateFileStatus([W EXCEPT !.writers[filename].is_complete = TRUE],
                           filename, "completed", wr.size, NoHash, elapsed)
     ELSE fresh

\* _ensure_resume_hash
EnsureResumeHash(W, filename, elapsed) ==
  LET wr == W.writers[filename]
  IN IF ~wr.needs_rehash THEN W
     ELSE IF W.parts[filename].exists
     THEN UpdateFileStatus(
            [W EXCEPT !.writers[filename].hasher = W.parts[filename].data,
                      !.writers[filename].needs_rehash = FALSE],
            filename, "in_progress", wr.written,
            SomeHash(Sha256(W.parts[filename].data)), elapsed)
     ELSE UpdateFileStatus(
            [W EXCEPT !.writers[filename].hasher = <<>>,
                      !.writers[filename].written = 0,
                      !.writers[filename].needs_rehash = FALSE],
            filename, "pending", 0, NoHash, elapsed)

\* the final path complete_file renames to: the name itself unless it exists
\* and overwrite_mode is off, then the first free stem_N.suffix
FinalSlot(W, filename) ==
  IF W.overwrite_mode THEN 0
  ELSE CHOOSE n \in RenameSlots :
         /\ ~W.finals[filename][n].exists
         /\ \A m \in RenameSlots : m < n => W.finals[filename][m].exists

\* complete_file
CompleteFile(W, filename) ==
  LET wr == W.writers[filename]
  IN IF wr.written = wr.size /\ ~wr.is_complete /\ W.parts[filename].exists
     THEN UpdateFileStatus(
            [W EXCEPT !.finals[filename][FinalSlot(W, filename)] = W.parts[filename],
                      !.parts[filename] = NoFile,
                      !.writers[filename].is_complete = TRUE],
            filename, "completed", wr.size, SomeHash(Sha256(wr.hasher)), FALSE)
     ELSE W

\* a write_chunk that takes all of data, whatever the file still lacks
WriteChunkUncapped(W, filename, data, elapsed) ==
  IF W.writers[filename].is_complete THEN [W |-> W, n |-> 0]
  ELSE LET wr == W.writers[filename]
           old == IF wr.written > 0 /\ W.parts[filename].exists
                  THEN W.parts[filename].data ELSE <<>>
       IN [W |-> [W EXCEPT !.parts[filename] = FileOf(old \o data),
                           !.writers[filename].hasher = @ \o data,
                           !.writers[filename].written = wr.written + Len(data)],
           n |-> Len(data)]

\* write_chunk: the new W and the number of bytes taken, n
\* elapsed = <<in _ensure_resume_hash, in write_chunk>>
WriteChunk(W, filename, data, elapsed) ==
  IF W.writers[filename].is_complete THEN [W |-> W, n |-> 0]
  ELSE LET W1 == EnsureResumeHash(W, filename, elapsed[1])
           wr == W1.writers[filename]
           bytes_to_write == Min(Len(data), wr.size - wr.written)
           chunk_to_write == SubSeq(data, 1, bytes_to_write)
           written == wr.written + bytes_to_write
           old == IF wr.written > 0 /\ W1.parts[filename].exists
                  THEN W1.parts[filename].data ELSE <<>>
           W2 == [W1 EXCEPT !.parts[filename] = FileOf(old \o chunk_to_write),
                            !.writers[filename].hasher = @ \o chunk_to_write,
                            !.writers[filename].written = written]
           W3 == IF \/ written % LockUpdateEvery < Len(chunk_to_write)
                    \/ written >= wr.size
                 THEN UpdateFileStatus(W2, filename, "in_progress", written,
                                       NoHash, elapsed[2])
                 ELSE W2
           W4 == IF written >= wr.size THEN CompleteFile(W3, filename) ELSE W3
       IN IF bytes_to_write > 0
          THEN [W |-> W4, n |-> bytes_to_write]
          ELSE [W |-> W1, n |-> bytes_to_write]

\* get_hash
GetHash(wr) == Sha256(wr.hasher)

\* reset_for_retry
ResetForRetry(W, filename, elapsed) ==
  [UpdateFileStatus(
     [W EXCEPT !.writers[filename].hasher = <<>>,
               !.writers[filename].written = 0,
               !.writers[filename].is_complete = FALSE,
               !.writers[filename].needs_rehash = FALSE],
     filename, "pending", 0, NoHash, elapsed)
   EXCEPT !.parts[filename] = NoFile]

\* needs_data
NeedsData(wr, stream_position) ==
  /\ wr.offset <= stream_position
  /\ stream_position < wr.offset + wr.size
  /\ ~wr.is_complete

\* ---------------------------------------------------- LazyFileWriterDict
\* _offset_index: (start, end, filename), sorted by start (a stable sort)
RECURSIVE InsertByStart(_, _)
InsertByStart(e, sorted) ==
  IF sorted = <<>> THEN <<e>>
  ELSE IF e.start < sorted[1].start THEN <<e>> \o sorted
  ELSE <<sorted[1]>> \o InsertByStart(e, Tail(sorted))

RECURSIVE SortByStart(_)
SortByStart(entries) ==
  IF entries = <<>> THEN <<>>
  ELSE InsertByStart(entries[Len(entries)],
                     SortByStart(SubSeq(entries, 1, Len(entries) - 1)))

OffsetIndex(files_info) ==
  SortByStart([i \in 1..Len(files_info) |->
                 [start |-> files_info[i].offset,
                  end |-> files_info[i].offset + files_info[i].size,
                  filename |-> files_info[i].filename]])

\* a bisect_left: the probe is also below an entry that starts at the position
RECURSIVE BisectLeft(_, _, _, _)
BisectLeft(index, stream_position, lo, hi) ==
  IF lo >= hi THEN lo
  ELSE LET mid == (lo + hi) \div 2
       IN IF stream_position <= index[mid + 1].start
          THEN BisectLeft(index, stream_position, lo, mid)
          ELSE BisectLeft(index, stream_position, mid + 1, hi)

\* bisect.bisect_right(index, (stream_position, inf, '')): the probe is below
\* an entry exactly when stream_position < entry.start
RECURSIVE BisectRight(_, _, _, _)
BisectRight(index, stream_position, lo, hi) ==
  IF lo >= hi THEN lo
  ELSE LET mid == (lo + hi) \div 2
       IN IF stream_position < index[mid + 1].start
          THEN BisectRight(index, stream_position, lo, mid)
          ELSE BisectRight(index, stream_position, mid + 1, hi)

\* __getitem__: the writer is made, and opened, on first access
GetItem(W, files_info, resume_dict, filename, elapsed) ==
  IF W.writers[filename].created THEN W
  ELSE LET file_info == InfoOf(files_info, filename)
           resume_bytes == IF filename \in DOMAIN resume_dict
                           THEN resume_dict[filename] ELSE 0
       IN OpenForWriting(
            [W EXCEPT !.writers[filename] = NewWriter(file_info.size, file_info.offset),
                      !.writer_order = Append(@, filename)],
            filename, resume_bytes, elapsed)

\* get_writer_at_offset: the name of the file at the position, "" for None
FileAtOffset(files_info, stream_position) ==
  LET index == OffsetIndex(files_info)
      idx == BisectRight(index, stream_position, 0, Len(index))
  IN IF idx > 0 /\ index[idx].start <= stream_position
                /\ stream_position < index[idx].end
     THEN index[idx].filename
     ELSE ""


\* ------------------------------------------------------------------ wire
\* sender -> receiver: one element per framed unit
PubKeyMsg == [kind |-> "pubkey", key |-> NoKey, pt |-> [fmt |-> "pubkey"]]
Enc(key, pt) == [kind |-> "enc", key |-> key, pt |-> pt]
EndMarker == [kind |-> "end", key |-> NoKey, pt |-> [fmt |-> "end"]]
\* receiver -> sender: one element per length-prefixed segment; an encrypted
\* record is a nonce segment followed by a ciphertext segment
Plain(body) == [kind |-> "plain", key |-> NoKey, pt |-> body]
NonceSeg == [kind |-> "nonce", key |-> NoKey, pt |-> [fmt |-> "nonce"]]
CtSeg(key, pt) == [kind |-> "ct", key |-> key, pt |-> pt]
EncSegs(key, pt) == <<NonceSeg, CtSeg(key, pt)>>
ReadyBody(text) == [fmt |-> "token", text |-> text]
DigestBody(d) == [fmt |-> "digest", digest |-> d]

\* dict.get(key, default) on a parsed JSON object
Get(obj, key, default) == IF key \in DOMAIN obj THEN obj[key] ELSE default
\* json.dumps(file_hashes): the dict of filename -> hex digest
HashesObj(map) == [map |-> map]
CompletionObj == [status |-> "completed"]
RetryObj(failed, attempt) ==
  [type |-> "retry_request", failed_files |-> failed, attempt |-> attempt]
ResendObj(pos) == [type |-> "resend_request", stream_position |-> pos]

VARIABLES
  files, use_compression, peer, rtoken, runs, batch_changed,
  spc, skey, response, ready_signal, sidx, spos, buffer, s_file_hashes,
  sent_log, completion_received,
  s2r, r2s, sclosed, rclosed,
  rpc, rkey, metadata, has_existing_lock, safe_files_info, resume_bytes_dict,
  chunk, chunk_offset, stream_position, total_bytes_received, file_hashes,
  failed_files, retry_attempt, completion_sent,
  writers, writer_order, lm, lock_file, parts, finals, overwrite_mode,
  client_sent,
  lock_tmp, lock_written, lpc, call

\* a save taken step by step: the .tmp file, how much of its document the
\* lock path holds, the lock manager's position, the call it is in
save_vars == <<lock_tmp, lock_written, lpc, call>>
env_vars == <<files, use_compression, peer, rtoken, runs, batch_changed, save_vars>>
sender_vars == <<spc, skey, response, ready_signal, sidx, spos, buffer,
                 s_file_hashes, sent_log, completion_received>>
wire_vars == <<s2r, r2s, sclosed, rclosed>>
recv_vars == <<rpc, rkey, metadata, has_existing_lock, safe_files_info,
               resume_bytes_dict, chunk, chunk_offset, stream_position,
               total_bytes_received, file_hashes, failed_files, retry_attempt,
               completion_sent>>
world_vars == <<writers, writer_order, lm, lock_file, parts, finals, overwrite_mode>>
vars == <<env_vars, sender_vars, wire_vars, recv_vars, world_vars, client_sent>>

\* the .tmp file beside the lock file; a call of the lock manager
NoTmp == [state |-> "absent", doc |-> NoLock]
NoCall == [op |-> "none", filename |-> "", status |-> "", force_save |-> FALSE,
           elapsed |-> FALSE, flushed |-> FALSE]

NoHashes == [defined |-> FALSE, map |-> EmptyMap]
\* a local that has not been bound yet
NoBody == [fmt |-> "none"]

\* a process before it starts
SenderInit ==
  /\ spc = "s_send_key" /\ skey = NoKey /\ sidx = 1 /\ spos = 0
  /\ response = NoBody /\ ready_signal = NoBody
  /\ buffer = <<>> /\ s_file_hashes = EmptyMap /\ sent_log = <<>>
  /\ completion_received = FALSE
WireInit == s2r = <<>> /\ r2s = <<>> /\ sclosed = FALSE /\ rclosed = FALSE
ReceiverInit ==
  /\ rpc = "r_read_key" /\ rkey = NoKey /\ metadata = NoMetadata
  /\ has_existing_lock = FALSE /\ safe_files_info = <<>>
  /\ resume_bytes_dict = [n \in {} |-> 0]
  /\ chunk = <<>> /\ chunk_offset = 0 /\ stream_position = 0
  /\ total_bytes_received = 0 /\ file_hashes = NoHashes
  /\ failed_files = <<>> /\ retry_attempt = 0 /\ completion_sent = FALSE
  /\ writers = [n \in AllNames |-> NoWriter] /\ writer_order = <<>>
  /\ lm = NewLockManager /\ overwrite_mode = FALSE

Init ==
  /\ peer \in {"receiver", "client", "server"}
  /\ files \in (IF peer = "server" THEN {<< File("a", <<0, 1, 0>>) >>} ELSE Batches)
  /\ use_compression \in (IF peer = "server" THEN {FALSE} ELSE BOOLEAN)
  /\ rtoken \in (IF peer = "receiver" THEN Tokens ELSE {SenderToken})
  /\ runs = 1 /\ batch_changed = FALSE
  /\ SenderInit /\ WireInit /\ ReceiverInit
  /\ lock_file = NoLock
  /\ lock_tmp = NoTmp /\ lock_written = "whole" /\ lpc = "session" /\ call = NoCall
  /\ parts = [n \in AllNames |-> NoFile]
  /\ \E old \in {NoFile, FileOf(OldData)} :
       finals = [n \in AllNames |-> [k \in RenameSlots |->
                   IF n = files[1].name /\ k = 0 THEN old ELSE NoFile]]
  /\ client_sent = 0

\* ------------------------------------------------------------ send_files
Logged(kind, bytes) == [kind |-> kind, bytes |-> bytes]
ChallengeBody == [fmt |-> "challenge", value |-> Challenge]
SenderMetadata == BatchMetadata(files, use_compression)

\* the socket is closed when the process leaves send_files
SenderEnds(pc) == spc' = pc /\ sclosed' = TRUE

\* a faulty sender that reads the peer's key before it writes its own
SenderReadsKeyFirst ==
  /\ spc = "s_send_key"
  /\ spc' = "s_read_key"
  /\ UNCHANGED <<env_vars, response, ready_signal, skey, sidx, spos, buffer,
                 s_file_hashes, sent_log, completion_received, wire_vars,
                 recv_vars, world_vars, client_sent>>

\* lines 1704-1706: the public key goes out first
SenderSendKey ==
  /\ spc = "s_send_key"
  /\ s2r' = Append(s2r, PubKeyMsg)
  /\ sent_log' = Append(sent_log, Logged("key", <<>>))
  /\ spc' = "s_read_key"
  /\ UNCHANGED <<env_vars, response, ready_signal, skey, sidx, spos, buffer, s_file_hashes,
                 completion_received, r2s, sclosed, rclosed, recv_vars,
                 world_vars, client_sent>>

\* lines 1708-1724: read the peer's key, derive the session key, send the challenge
SenderRecvKey ==
  /\ spc = "s_read_key" /\ r2s # <<>>
  /\ r2s' = Tail(r2s)
  /\ skey' = DeriveSessionKey(SenderToken)
  /\ s2r' = Append(s2r, Enc(skey', ChallengeBody))
  /\ sent_log' = Append(sent_log, Logged("challenge", <<>>))
  /\ spc' = "s_wait_response"
  /\ UNCHANGED <<env_vars, response, ready_signal, sidx, spos, buffer,
                 s_file_hashes, completion_received, sclosed, rclosed, recv_vars,
                 world_vars, client_sent>>

\* a faulty comparison that accepts any response
ResponseAcceptedAny(resp, expected_response) == TRUE
\* line 1730
ResponseAccepted(resp, expected_response) == resp = expected_response

\* lines 1726-1766: compare the response; on a match send the batch metadata
SenderCheckResponse ==
  /\ spc = "s_wait_response" /\ r2s # <<>>
  /\ r2s' = Tail(r2s)
  /\ response' = Head(r2s).pt
  /\ IF ResponseAccepted(Head(r2s).pt,
                         DigestBody(ChallengeResponse(Challenge, SenderToken)))
     THEN /\ s2r' = Append(s2r, Enc(skey, Json(SenderMetadata)))
          /\ sent_log' = Append(sent_log, Logged("meta", <<>>))
          /\ spc' = "s_wait_ready"
          /\ UNCHANGED sclosed
     ELSE /\ SenderEnds("s_closed_auth")
          /\ UNCHANGED <<s2r, sent_log>>
  /\ UNCHANGED <<env_vars, ready_signal, skey, sidx, spos, buffer, s_file_hashes,
                 completion_received, rclosed, recv_vars, world_vars, client_sent>>

\* a faulty comparison that accepts any token
ReadyAcceptedAny(signal) == TRUE
\* line 1785
ReadyAccepted(signal) == signal = ReadyBody("READY")

\* lines 1781-1788: the READY token, or the connection is closed
SenderRecvReady ==
  /\ spc = "s_wait_ready" /\ r2s # <<>>
  /\ r2s' = Tail(r2s)
  /\ ready_signal' = Head(r2s).pt
  /\ IF ReadyAccepted(Head(r2s).pt)
     THEN spc' = "s_stream" /\ UNCHANGED sclosed
     ELSE SenderEnds("s_closed_ready")
  /\ UNCHANGED <<env_vars, response, skey, sidx, spos, buffer, s_file_hashes,
                 sent_log, completion_received, s2r, rclosed, recv_vars,
                 world_vars, client_sent>>

\* lines 1789-1792: no READY within the timeout
SenderReadyTimeout ==
  /\ spc = "s_wait_ready" /\ r2s = <<>>
  /\ SenderEnds("s_closed_ready")
  /\ UNCHANGED <<env_vars, response, ready_signal, skey, sidx, spos, buffer, s_file_hashes, sent_log,
                 completion_received, s2r, r2s, rclosed, recv_vars, world_vars,
                 client_sent>>

\* recv_all raises ConnectionError when the peer has closed (lines 169-177),
\* taken by the handler at line 2088
SenderHandshakeEOF ==
  /\ spc \in {"s_read_key", "s_wait_response", "s_wait_ready"}
  /\ r2s = <<>> /\ rclosed
  /\ SenderEnds("s_error")
  /\ UNCHANGED <<env_vars, response, ready_signal, skey, sidx, spos, buffer, s_file_hashes, sent_log,
                 completion_received, s2r, r2s, rclosed, recv_vars, world_vars,
                 client_sent>>

\* a send on a connection the peer has closed may raise (line 2088)
SenderBrokenPipe ==
  /\ spc = "s_stream" /\ rclosed
  /\ SenderEnds("s_error")
  /\ UNCHANGED <<env_vars, response, ready_signal, skey, sidx, spos, buffer, s_file_hashes, sent_log,
                 completion_received, s2r, r2s, rclosed, recv_vars, world_vars,
                 client_sent>>

\* the connection is lost while the sender streams: its next send raises
\* (line 2088) and, the peer gone, the receiver's reads find the socket closed
ConnectionLost ==
  /\ peer = "receiver" /\ spc = "s_stream" /\ ~rclosed
  /\ SenderEnds("s_error")
  /\ UNCHANGED <<env_vars, response, ready_signal, skey, sidx, spos, buffer, s_file_hashes, sent_log,
                 completion_received, s2r, r2s, rclosed, recv_vars, world_vars,
                 client_sent>>

\* crypto.decrypt of a (nonce, ciphertext) pair of segments under key
DecryptsSegs(seg1, seg2, key) ==
  seg1.kind = "nonce" /\ seg2.kind = "ct" /\ seg2.key = key

\* handle_resend_request with send_chunk_from_position: what is consumed from
\* the receiver's segments and the block sent in answer (<<>> for none)
ResendAnswer(segs) ==
  IF Len(segs) < 2 THEN [rest |-> <<>>, block |-> <<>>]
  ELSE LET ok == /\ DecryptsSegs(segs[1], segs[2], skey)
                 /\ segs[2].pt.fmt = "json"
                 /\ Get(segs[2].pt.obj, "type", "") = "resend_request"
           pos == Get(segs[2].pt.obj, "stream_position", 0)
           i == IF ok THEN GetCurrentFileInfo(pos, SenderMetadata.files) ELSE 0
           off == pos - SenderMetadata.files[i].offset
       IN [rest |-> SubSeq(segs, 3, Len(segs)),
           block |-> IF i = 0 THEN <<>>
                     ELSE SubSeq(files[i].data, off + 1,
                                 Min(off + BufferSize, Len(files[i].data)))]

\* lines 1843-1907: one read of the current file; a full buffer goes out as a
\* block, and after a block the socket may be polled for a resend request
SenderReadChunk ==
  /\ spc = "s_stream" /\ sidx <= Len(files)
  /\ LET data == files[sidx].data
         read == SubSeq(data, spos + 1, Min(spos + ReadSize, Len(data)))
         buf == buffer \o read
         block == SubSeq(buf, 1, BufferSize)
     IN IF spos >= Len(data)
        THEN /\ s_file_hashes' =
                  [n \in DOMAIN s_file_hashes \cup {files[sidx].name} |->
                     IF n = files[sidx].name THEN Sha256(data) ELSE s_file_hashes[n]]
             /\ sidx' = sidx + 1 /\ spos' = 0
             /\ UNCHANGED <<buffer, s2r, r2s, sent_log>>
        ELSE /\ spos' = spos + Len(read)
             /\ UNCHANGED <<sidx, s_file_hashes>>
             /\ IF Len(buf) < BufferSize
                THEN buffer' = buf /\ UNCHANGED <<s2r, r2s, sent_log>>
                ELSE /\ buffer' = SubSeq(buf, BufferSize + 1, Len(buf))
                     /\ \E poll \in BOOLEAN :
                          IF poll /\ (r2s # <<>> \/ rclosed)
                          THEN LET ans == ResendAnswer(r2s)
                               IN /\ r2s' = ans.rest
                                  /\ IF ans.block = <<>>
                                     THEN /\ s2r' = Append(s2r, Enc(skey, Compress(use_compression, block)))
                                          /\ sent_log' = Append(sent_log, Logged("data", block))
                                     ELSE /\ s2r' = s2r \o <<Enc(skey, Compress(use_compression, block)),
                                                            Enc(skey, Compress(use_compression, ans.block))>>
                                          /\ sent_log' = sent_log \o <<Logged("data", block),
                                                                       Logged("data", ans.block)>>
                          ELSE /\ s2r' = Append(s2r, Enc(skey, Compress(use_compression, block)))
                               /\ sent_log' = Append(sent_log, Logged("data", block))
                               /\ UNCHANGED r2s
  /\ UNCHANGED <<env_vars, response, ready_signal, spc, skey, completion_received, sclosed, rclosed,
                 recv_vars, world_vars, client_sent>>

\* a faulty sender that writes the End Marker before the Hash Map
SenderFinishEndFirst ==
  /\ spc = "s_stream" /\ sidx > Len(files)
  /\ LET residue == IF buffer = <<>> THEN <<>>
                    ELSE <<Enc(skey, Compress(use_compression, buffer))>>
         logged == IF buffer = <<>> THEN <<>> ELSE <<Logged("data", buffer)>>
     IN /\ s2r' = s2r \o residue
                      \o <<EndMarker, Enc(skey, Json(HashesObj(s_file_hashes)))>>
        /\ sent_log' = sent_log \o logged
                      \o <<Logged("end", <<>>), Logged("hashmap", <<>>)>>
  /\ buffer' = <<>>
  /\ spc' = "s_post"
  /\ UNCHANGED <<env_vars, response, ready_signal, skey, sidx, spos, s_file_hashes, completion_received,
                 r2s, sclosed, rclosed, recv_vars, world_vars, client_sent>>

\* lines 1909-1944: the residue, then the Hash Map, then the End Marker
SenderFinish ==
  /\ spc = "s_stream" /\ sidx > Len(files)
  /\ LET residue == IF buffer = <<>> THEN <<>>
                    ELSE <<Enc(skey, Compress(use_compression, buffer))>>
         logged == IF buffer = <<>> THEN <<>> ELSE <<Logged("data", buffer)>>
     IN /\ s2r' = s2r \o residue
                      \o <<Enc(skey, Json(HashesObj(s_file_hashes))), EndMarker>>
        /\ sent_log' = sent_log \o logged
                      \o <<Logged("hashmap", <<>>), Logged("end", <<>>)>>
  /\ buffer' = <<>>
  /\ spc' = "s_post"
  /\ UNCHANGED <<env_vars, response, ready_signal, skey, sidx, spos, s_file_hashes, completion_received,
                 r2s, sclosed, rclosed, recv_vars, world_vars, client_sent>>

\* any decoded message taken for the Completion Signal
IsCompletionAnyMessage(message) == DOMAIN message # {}
\* line 1977: message.get("status") == "completed"
IsCompletion(message) == Get(message, "status", "") = "completed"

\* lines 1957-2037: one message of the wait loop
SenderPostRead ==
  /\ spc = "s_post" /\ Len(r2s) >= 2
  /\ r2s' = SubSeq(r2s, 3, Len(r2s))
  /\ LET ok == DecryptsSegs(r2s[1], r2s[2], skey) /\ r2s[2].pt.fmt = "json"
         message == r2s[2].pt.obj
     IN IF ~ok
        THEN UNCHANGED <<spc, sclosed, completion_received, s2r, sent_log>>
        ELSE IF IsCompletion(message)
        THEN /\ completion_received' = TRUE
             /\ SenderEnds("s_confirmed")
             /\ UNCHANGED <<s2r, sent_log>>
        ELSE LET failed == Get(message, "failed_files", <<>>)
             IN IF \E k \in 1..Len(failed) : failed[k] \in DOMAIN s_file_hashes
                THEN \* file_info['path'] on a Path object: TypeError, line 2098
                     /\ SenderEnds("s_error")
                     /\ UNCHANGED <<completion_received, s2r, sent_log>>
                ELSE /\ s2r' = s2r \o <<Enc(skey, Json(HashesObj(EmptyMap))), EndMarker>>
                     /\ sent_log' = sent_log \o <<Logged("hashmap", <<>>), Logged("end", <<>>)>>
                     /\ UNCHANGED <<spc, sclosed, completion_received>>
  /\ UNCHANGED <<env_vars, response, ready_signal, skey, sidx, spos, buffer, s_file_hashes, rclosed,
                 recv_vars, world_vars, client_sent>>

\* lines 1960-1962, 2038-2056: the timeout, or the receiver closed
SenderPostStop ==
  /\ spc = "s_post" /\ Len(r2s) < 2
  /\ SenderEnds("s_unconfirmed")
  /\ r2s' = <<>>
  /\ UNCHANGED <<env_vars, response, ready_signal, skey, sidx, spos, buffer, s_file_hashes, sent_log,
                 completion_received, s2r, rclosed, recv_vars, world_vars,
                 client_sent>>


\* --------------------------------------------------------- receive_files
CurW ==
  [writers |-> writers, writer_order |-> writer_order, lm |-> lm,
   lock_file |-> lock_file, parts |-> parts, finals |-> finals,
   overwrite_mode |-> overwrite_mode]
SetW(W) ==
  /\ writers' = W.writers /\ writer_order' = W.writer_order /\ lm' = W.lm
  /\ lock_file' = W.lock_file /\ parts' = W.parts /\ finals' = W.finals
  /\ overwrite_mode' = W.overwrite_mode

\* the socket is closed when the process leaves receive_files
ReceiverEnds(pc) == rpc' = pc /\ rclosed' = TRUE

\* SecureCrypto.decrypt of a record read from the sender
Decrypts(rec, key) == rec.kind = "enc" /\ rec.key = key

\* lines 2175-2184: read the sender's key, send ours, derive the session key
RecvSenderKey ==
  /\ peer # "client" /\ rpc = "r_read_key" /\ s2r # <<>>
  /\ s2r' = Tail(s2r)
  /\ r2s' = Append(r2s, Plain([fmt |-> "pubkey"]))
  /\ rkey' = DeriveSessionKey(rtoken)
  /\ rpc' = "r_read_challenge"
  /\ UNCHANGED <<env_vars, sender_vars, sclosed, rclosed, metadata,
                 has_existing_lock, safe_files_info, resume_bytes_dict, chunk,
                 chunk_offset, stream_position, total_bytes_received,
                 file_hashes, failed_files, retry_attempt, completion_sent,
                 world_vars, client_sent>>

\* lines 2186-2200: decrypt the challenge (InvalidTag ends the run, line 2770)
\* and answer it
RecvChallenge ==
  /\ rpc = "r_read_challenge" /\ s2r # <<>>
  /\ s2r' = Tail(s2r)
  /\ IF Decrypts(Head(s2r), rkey)
     THEN /\ r2s' = Append(r2s, Plain(DigestBody(
                      ChallengeResponse(Head(s2r).pt.value, rtoken))))
          /\ rpc' = "r_read_metadata"
          /\ UNCHANGED rclosed
     ELSE /\ ReceiverEnds("r_auth_failed")
          /\ UNCHANGED r2s
  /\ UNCHANGED <<env_vars, sender_vars, sclosed, rkey, metadata,
                 has_existing_lock, safe_files_info, resume_bytes_dict, chunk,
                 chunk_offset, stream_position, total_bytes_received,
                 file_hashes, failed_files, retry_attempt, completion_sent,
                 world_vars, client_sent>>

\* lines 2284-2297: the entries whose filename is not unsafe
RECURSIVE SafeFilesInfo(_)
SafeFilesInfo(files_info) ==
  IF files_info = <<>> THEN <<>>
  ELSE (IF IsUnsafe(files_info[1].filename) THEN <<>> ELSE <<files_info[1]>>)
       \o SafeFilesInfo(Tail(files_info))

\* lines 2276-2295: resume_bytes_dict, from the plan when a lock is resumed
ResumeBytesDict(has_lock, lock_data, files_info) ==
  IF ~has_lock THEN [n \in {} |-> 0]
  ELSE LET plan == GetResumePlan(lock_data, files_info)
           done == plan.completed_files \cap FileNames(SafeFilesInfo(files_info))
       IN [n \in DOMAIN plan.resume_files \cup done |->
             IF n \in done THEN InfoOf(files_info, n).size
             ELSE plan.resume_files[n]]

\* lines 2276-2311: the writers' dictionary is set up and READY is sent
FinishSetup(W, has_lock, md) ==
  /\ SetW(W)
  /\ has_existing_lock' = has_lock
  /\ safe_files_info' = SafeFilesInfo(md.files)
  /\ resume_bytes_dict' = ResumeBytesDict(has_lock, W.lm.lock_data, md.files)
  /\ r2s' = Append(r2s, Plain(ReadyBody("READY")))
  /\ rpc' = "r_stream"
  /\ UNCHANGED rclosed

\* detect_existing_conflicts: the safe files whose final path exists
Conflicts(W, files_info) ==
  {n \in FileNames(SafeFilesInfo(files_info)) : W.finals[n][0].exists}

\* lines 2252-2274: a new lock file; the output directory now holds it, so
\* conflict detection is skipped only above 5000 files
FreshSetup(W, md) ==
  LET W1 == CreateLockFile(W, md.files)
  IN IF Conflicts(W1, md.files) # {}
     THEN /\ SetW(W1)
          /\ has_existing_lock' = FALSE
          /\ rpc' = "r_prompt_overwrite"
          /\ UNCHANGED <<safe_files_info, resume_bytes_dict, r2s, rclosed>>
     ELSE FinishSetup(W1, FALSE, md)

\* lines 2202-2246: the metadata record, then the lock of an earlier run
RecvMetadata ==
  /\ rpc = "r_read_metadata" /\ s2r # <<>>
  /\ s2r' = Tail(s2r)
  /\ LET rec == Head(s2r)
         md == rec.pt.obj
         W == [CurW EXCEPT !.lm.lock_data = lock_file]
     IN IF ~Decrypts(rec, rkey)
        THEN /\ ReceiverEnds("r_auth_failed")
             /\ UNCHANGED <<metadata, has_existing_lock, safe_files_info,
                            resume_bytes_dict, r2s, world_vars>>
        ELSE IF md.type # "stream"
        THEN /\ ReceiverEnds("r_exit1")
             /\ UNCHANGED <<metadata, has_existing_lock, safe_files_info,
                            resume_bytes_dict, r2s, world_vars>>
        ELSE /\ metadata' = md
             /\ IF lock_file.present
                THEN /\ SetW(W)
                     /\ has_existing_lock' = TRUE
                     /\ rpc' = "r_prompt_resume"
                     /\ UNCHANGED <<safe_files_info, resume_bytes_dict, r2s, rclosed>>
                ELSE FreshSetup(CurW, md)
  /\ UNCHANGED <<env_vars, sender_vars, sclosed, rkey, chunk, chunk_offset,
                 stream_position, total_bytes_received, file_hashes,
                 failed_files, retry_attempt, completion_sent, client_sent>>

\* lines 2245-2250: the answer to "Resume transfer?"
AnswerResume ==
  /\ rpc = "r_prompt_resume"
  /\ \E yes \in BOOLEAN :
       IF yes THEN FinishSetup(CurW, TRUE, metadata)
       ELSE FreshSetup(CleanupOnCompletion(CurW), metadata)
  /\ UNCHANGED <<env_vars, sender_vars, s2r, sclosed, rkey, metadata, chunk,
                 chunk_offset, stream_position, total_bytes_received,
                 file_hashes, failed_files, retry_attempt, completion_sent,
                 client_sent>>

\* lines 2268-2274: the answer to "Existing files/folders will be overwritten"
AnswerOverwrite ==
  /\ rpc = "r_prompt_overwrite"
  /\ \E yes \in BOOLEAN :
       IF yes THEN FinishSetup([CurW EXCEPT !.overwrite_mode = TRUE], FALSE, metadata)
       ELSE /\ ReceiverEnds("r_cancelled")
            /\ UNCHANGED <<has_existing_lock, safe_files_info, resume_bytes_dict,
                           r2s, world_vars>>
  /\ UNCHANGED <<env_vars, sender_vars, s2r, sclosed, rkey, metadata, chunk,
                 chunk_offset, stream_position, total_bytes_received,
                 file_hashes, failed_files, retry_attempt, completion_sent,
                 client_sent>>

\* the 30 s socket timeout, or the sender closed, while the handshake reads
\* (lines 2730-2732, 2736-2760: no writer exists yet)
RecvHandshakeFail ==
  /\ peer # "client"
  /\ rpc \in {"r_read_key", "r_read_challenge", "r_read_metadata"}
  /\ s2r = <<>>
  /\ ReceiverEnds("r_exit1")
  /\ UNCHANGED <<env_vars, sender_vars, s2r, r2s, sclosed, rkey, metadata,
                 has_existing_lock, safe_files_info, resume_bytes_dict, chunk,
                 chunk_offset, stream_position, total_bytes_received,
                 file_hashes, failed_files, retry_attempt, completion_sent,
                 world_vars, client_sent>>


\* lines 2403-2427: the block's bytes; blosc.decompress accepts only blosc
\* output, and an undecompressed blosc frame is not the bytes it holds
Decompress(is_compressed, pt) ==
  IF is_compressed
  THEN [ok |-> pt.fmt = "blosc", bytes |-> pt.bytes]
  ELSE [ok |-> TRUE,
        bytes |-> IF pt.fmt = "raw" THEN pt.bytes ELSE <<-1>> \o pt.bytes]

\* lines 2373-2431: one record of the forward stream.  The End Marker ends the
\* loop; a plaintext that parses as a JSON dict with string keys is taken as
\* the Hash Map and ends the loop; anything else is a data block
RecvStreamRecord ==
  /\ rpc = "r_stream" /\ s2r # <<>>
  /\ s2r' = Tail(s2r)
  /\ LET rec == Head(s2r)
         dec == Decompress(metadata.compressed, rec.pt)
     IN IF rec.kind = "end"
        THEN /\ rpc' = "r_verify"
             /\ UNCHANGED <<rclosed, chunk, chunk_offset, file_hashes>>
        ELSE IF ~Decrypts(rec, rkey)
        THEN /\ ReceiverEnds("r_auth_failed")
             /\ UNCHANGED <<chunk, chunk_offset, file_hashes>>
        ELSE IF ParsesAsJsonDict(rec.pt)
        THEN /\ file_hashes' = [defined |-> TRUE, map |-> ParsedHashMap(rec.pt)]
             /\ rpc' = "r_verify"
             /\ UNCHANGED <<rclosed, chunk, chunk_offset>>
        ELSE IF ~dec.ok
        THEN /\ ReceiverEnds("r_exit1")
             /\ UNCHANGED <<chunk, chunk_offset, file_hashes>>
        ELSE /\ chunk' = dec.bytes /\ chunk_offset' = 0
             /\ rpc' = IF dec.bytes = <<>> THEN "r_stream" ELSE "r_write"
             /\ UNCHANGED <<rclosed, file_hashes>>
  /\ UNCHANGED <<env_vars, sender_vars, r2s, sclosed, rkey, metadata,
                 has_existing_lock, safe_files_info, resume_bytes_dict,
                 stream_position, total_bytes_received, failed_files,
                 retry_attempt, completion_sent, world_vars, client_sent>>

\* lines 2435-2451: one turn of the write loop; after the last one the
\* positions advance by the whole block
RecvWriteStep ==
  /\ rpc = "r_write"
  /\ \E e1, e2, e3 \in BOOLEAN :
       LET pos == stream_position + chunk_offset
           remaining_chunk == SubSeq(chunk, chunk_offset + 1, Len(chunk))
           filename == FileAtOffset(safe_files_info, pos)
           W1 == IF filename = "" THEN CurW
                 ELSE GetItem(CurW, safe_files_info, resume_bytes_dict, filename, e1)
           res == IF filename # "" /\ NeedsData(W1.writers[filename], pos)
                  THEN WriteChunk(W1, filename, remaining_chunk, <<e2, e3>>)
                  ELSE [W |-> W1, n |-> 0]
           bytes_written == res.n
           new_offset == IF bytes_written = 0 THEN Len(chunk)
                         ELSE chunk_offset + bytes_written
       IN /\ SetW(res.W)
          /\ IF new_offset < Len(chunk)
             THEN /\ chunk_offset' = new_offset
                  /\ UNCHANGED <<rpc, chunk, stream_position, total_bytes_received>>
             ELSE /\ stream_position' = stream_position + Len(chunk)
                  /\ total_bytes_received' = total_bytes_received + Len(chunk)
                  /\ chunk' = <<>> /\ chunk_offset' = 0
                  /\ rpc' = "r_stream"
  /\ UNCHANGED <<env_vars, sender_vars, wire_vars, rkey, metadata,
                 has_existing_lock, safe_files_info, resume_bytes_dict,
                 file_hashes, failed_files, retry_attempt, completion_sent,
                 client_sent>>

\* lines 2487-2508: every created writer, in creation order, is completed if
\* it is not, and its hash compared with the Hash Map's entry when there is one
RECURSIVE VerifyWriters(_, _, _)
VerifyWriters(W, created_writers, hashes) ==
  IF created_writers = <<>> THEN [W |-> W, failed_files |-> <<>>]
  ELSE LET filename == created_writers[1]
           W1 == IF W.writers[filename].is_complete THEN W
                 ELSE CompleteFile(W, filename)
           received_hash == GetHash(W1.writers[filename])
           bad == /\ filename \in DOMAIN hashes
                  /\ received_hash # hashes[filename]
           rest == VerifyWriters(W1, Tail(created_writers), hashes)
       IN [W |-> rest.W,
           failed_files |->
             (IF bad THEN <<[filename |-> filename,
                             expected_hash |-> hashes[filename],
                             received_hash |-> received_hash]>>
              ELSE <<>>) \o rest.failed_files]

\* lines 2481-2539: verification.  file_hashes is bound only by a Hash Map:
\* without one the first lookup raises NameError (handler at line 2761)
RecvVerify ==
  /\ rpc = "r_verify"
  /\ IF ~file_hashes.defined /\ writer_order # <<>>
     THEN /\ SetW(IF writers[writer_order[1]].is_complete THEN CurW
                  ELSE CompleteFile(CurW, writer_order[1]))
          /\ ReceiverEnds("r_exit1")
          /\ UNCHANGED failed_files
     ELSE LET v == VerifyWriters(CurW, writer_order, file_hashes.map)
          IN /\ SetW(v.W)
             /\ failed_files' = v.failed_files
             /\ rpc' = IF v.failed_files = <<>> THEN "r_complete" ELSE "r_retry"
             /\ UNCHANGED rclosed
  /\ UNCHANGED <<env_vars, sender_vars, s2r, r2s, sclosed, rkey, metadata,
                 has_existing_lock, safe_files_info, resume_bytes_dict, chunk,
                 chunk_offset, stream_position, total_bytes_received,
                 file_hashes, retry_attempt, completion_sent, client_sent>>


\* lines 2749-2758: iterating the writers' dictionary makes every writer, in
\* stream order; the .part file of each incomplete one is unlinked
RECURSIVE CleanupPartials(_, _, _, _, _)
CleanupPartials(W, index, files_info, resume_dict, elapsed) ==
  IF index = <<>> THEN W
  ELSE LET filename == index[1].filename
           W1 == GetItem(W, files_info, resume_dict, filename, elapsed)
           W2 == IF W1.parts[filename].exists /\ ~W1.writers[filename].is_complete
                 THEN [W1 EXCEPT !.parts[filename] = NoFile]
                 ELSE W1
       IN CleanupPartials(W2, Tail(index), files_info, resume_dict, elapsed)

\* the OSError handler, lines 2736-2760
OSErrorExit(elapsed) ==
  /\ SetW(CleanupPartials(CurW, OffsetIndex(safe_files_info), safe_files_info,
                          resume_bytes_dict, elapsed))
  /\ ReceiverEnds("r_exit1")

\* lines 2576-2580: reset_for_retry then open_for_writing() on each failed file
RECURSIVE ResetFailed(_, _, _)
ResetFailed(W, failed, elapsed) ==
  IF failed = <<>> THEN W
  ELSE ResetFailed(
         OpenForWriting(ResetForRetry(W, failed[1].filename, elapsed),
                        failed[1].filename, 0, elapsed),
         Tail(failed), elapsed)

\* lines 2544-2580: the head of one turn of the retry loop
RecvRetryStart ==
  /\ rpc = "r_retry"
  /\ IF retry_attempt >= MAX_RETRY_ATTEMPTS - 1
     THEN /\ ReceiverEnds("r_exit1")
          /\ UNCHANGED <<retry_attempt, r2s, world_vars>>
     ELSE /\ retry_attempt' = retry_attempt + 1
          /\ \E raises \in (IF sclosed THEN BOOLEAN ELSE {FALSE}), e \in BOOLEAN :
               IF raises
               THEN OSErrorExit(e) /\ UNCHANGED r2s
               ELSE /\ r2s' = Append(r2s, Plain(Json(RetryObj(
                               [i \in 1..Len(failed_files) |-> failed_files[i].filename],
                               retry_attempt + 1))))
                    /\ SetW(ResetFailed(CurW, failed_files, e))
                    /\ rpc' = "r_retry_recv"
                    /\ UNCHANGED rclosed
  /\ UNCHANGED <<env_vars, sender_vars, s2r, sclosed, rkey, metadata,
                 has_existing_lock, safe_files_info, resume_bytes_dict, chunk,
                 chunk_offset, stream_position, total_bytes_received,
                 file_hashes, failed_files, completion_sent, client_sent>>

\* lines 2653-2669: the failed files whose hash still differs
StillFailed(W, failed) ==
  SelectSeq(failed, LAMBDA f : GetHash(W.writers[f.filename]) # f.expected_hash)

\* file_hashes.update(retry_file_hashes)
UpdateHashes(old, new) ==
  [n \in DOMAIN old \cup DOMAIN new |-> IF n \in DOMAIN new THEN new[n] ELSE old[n]]

\* lines 2588-2669: one record of a retry stream.  The End Marker, a record
\* that does not decrypt, a JSON dict, or a blosc block (its write raises
\* KeyError at line 2625) ends the loop; a block blosc rejects is skipped
RecvRetryRecord ==
  /\ rpc = "r_retry_recv" /\ s2r # <<>>
  /\ s2r' = Tail(s2r)
  /\ LET rec == Head(s2r)
         ok == Decrypts(rec, rkey)
         is_json == ok /\ ParsesAsJsonDict(rec.pt)
         stop == rec.kind = "end" \/ ~ok \/ is_json \/ rec.pt.fmt = "blosc"
         left == StillFailed(CurW, failed_files)
     IN /\ file_hashes' =
             IF is_json
             THEN [file_hashes EXCEPT !.map = UpdateHashes(@, ParsedHashMap(rec.pt))]
             ELSE file_hashes
        /\ IF stop
           THEN /\ failed_files' = left
                /\ rpc' = IF left = <<>> THEN "r_complete" ELSE "r_retry"
           ELSE UNCHANGED <<failed_files, rpc>>
  /\ UNCHANGED <<env_vars, sender_vars, r2s, sclosed, rclosed, rkey, metadata,
                 has_existing_lock, safe_files_info, resume_bytes_dict, chunk,
                 chunk_offset, stream_position, total_bytes_received,
                 retry_attempt, completion_sent, world_vars, client_sent>>

\* the read of a retry stream times out or finds the connection closed: the
\* exception ends the loop (line 2649)
RecvRetryReadFails ==
  /\ rpc = "r_retry_recv" /\ s2r = <<>>
  /\ LET left == StillFailed(CurW, failed_files)
     IN /\ failed_files' = left
        /\ rpc' = IF left = <<>> THEN "r_complete" ELSE "r_retry"
  /\ UNCHANGED <<env_vars, sender_vars, wire_vars, rkey, metadata,
                 has_existing_lock, safe_files_info, resume_bytes_dict, chunk,
                 chunk_offset, stream_position, total_bytes_received,
                 file_hashes, retry_attempt, completion_sent, world_vars,
                 client_sent>>

\* lines 2676-2682: the success path begins: cleanup_on_completion, then
\* flush_pending_updates
RecvComplete ==
  /\ rpc = "r_complete"
  /\ SetW(FlushPendingUpdates(CleanupOnCompletion(CurW)))
  /\ rpc' = "r_send_completion"
  /\ UNCHANGED <<env_vars, sender_vars, wire_vars, rkey, metadata,
                 has_existing_lock, safe_files_info, resume_bytes_dict, chunk,
                 chunk_offset, stream_position, total_bytes_received,
                 file_hashes, failed_files, retry_attempt, completion_sent,
                 client_sent>>

\* lines 2684-2698, 2712-2721: the Completion Signal; each of the three
\* attempts may fail once the sender has closed
RecvSendCompletion ==
  /\ rpc = "r_send_completion"
  /\ \E sent \in (IF sclosed THEN BOOLEAN ELSE {TRUE}) :
       /\ completion_sent' = sent
       /\ IF sent
          THEN /\ r2s' = r2s \o EncSegs(rkey, Json(CompletionObj))
               /\ rpc' = "r_shutdown"
               /\ UNCHANGED rclosed
          ELSE /\ ReceiverEnds("r_done")
               /\ UNCHANGED r2s
  /\ UNCHANGED <<env_vars, sender_vars, s2r, sclosed, rkey, metadata,
                 has_existing_lock, safe_files_info, resume_bytes_dict, chunk,
                 chunk_offset, stream_position, total_bytes_received,
                 file_hashes, failed_files, retry_attempt, world_vars,
                 client_sent>>

\* lines 2700-2728: shutdown(SHUT_WR), then the process ends
RecvShutdown ==
  /\ rpc = "r_shutdown"
  /\ ReceiverEnds("r_done")
  /\ UNCHANGED <<env_vars, sender_vars, s2r, r2s, sclosed, rkey, metadata,
                 has_existing_lock, safe_files_info, resume_bytes_dict, chunk,
                 chunk_offset, stream_position, total_bytes_received,
                 file_hashes, failed_files, retry_attempt, completion_sent,
                 world_vars, client_sent>>

\* lines 2730-2732: socket.timeout while the stream is read
RecvStreamTimeout ==
  /\ rpc = "r_stream" /\ s2r = <<>>
  /\ ReceiverEnds("r_exit1")
  /\ UNCHANGED <<env_vars, sender_vars, s2r, r2s, sclosed, rkey, metadata,
                 has_existing_lock, safe_files_info, resume_bytes_dict, chunk,
                 chunk_offset, stream_position, total_bytes_received,
                 file_hashes, failed_files, retry_attempt, completion_sent,
                 world_vars, client_sent>>

\* recv_all raises ConnectionError when the sender has closed: the OSError
\* handler
RecvStreamEOF ==
  /\ rpc = "r_stream" /\ s2r = <<>> /\ sclosed
  /\ \E e \in BOOLEAN : OSErrorExit(e)
  /\ UNCHANGED <<env_vars, sender_vars, s2r, r2s, sclosed, rkey, metadata,
                 has_existing_lock, safe_files_info, resume_bytes_dict, chunk,
                 chunk_offset, stream_position, total_bytes_received,
                 file_hashes, failed_files, retry_attempt, completion_sent,
                 client_sent>>


\* ------------------------------------------------------- the environment
\* the receiver process is killed while it receives the stream: its memory is
\* gone, the output directory stays as it is
Kill ==
  /\ peer # "client" /\ rpc \in {"r_stream", "r_write"} /\ runs < MaxRuns
  /\ ReceiverEnds("r_killed")
  /\ UNCHANGED <<env_vars, sender_vars, s2r, r2s, sclosed, rkey, metadata,
                 has_existing_lock, safe_files_info, resume_bytes_dict, chunk,
                 chunk_offset, stream_position, total_bytes_received,
                 file_hashes, failed_files, retry_attempt, completion_sent,
                 world_vars, client_sent>>

\* lines 2785-2789: KeyboardInterrupt raised in the stream loop: the handler
\* prints and calls sys.exit(1); the finally clause closes the socket
Interrupt ==
  /\ peer = "receiver" /\ rpc \in {"r_stream", "r_write"}
  /\ ReceiverEnds("r_interrupted")
  /\ UNCHANGED <<env_vars, sender_vars, s2r, r2s, sclosed, rkey, metadata,
                 has_existing_lock, safe_files_info, resume_bytes_dict, chunk,
                 chunk_offset, stream_position, total_bytes_received,
                 file_hashes, failed_files, retry_attempt, completion_sent,
                 world_vars, client_sent>>

\* the batch of a later run when the user's files changed in between
ChangedBatch(batch) ==
  IF Len(batch) = 2 THEN << File("a", <<0, 1, 0>>) >>
  ELSE << File("a", <<0, 0, 0, 0, 0>>), File("b", <<1>>) >>

\* sender and receiver are run again over the same output directory, with
\* the same files or with files that changed
Restart ==
  /\ rpc = "r_killed"
  /\ runs' = runs + 1
  /\ files' \in (IF peer = "server" THEN {files} ELSE {files, ChangedBatch(files)})
  /\ batch_changed' = (batch_changed \/ files' # files)
  /\ spc' = "s_send_key" /\ skey' = NoKey /\ sidx' = 1 /\ spos' = 0
  /\ response' = NoBody /\ ready_signal' = NoBody
  /\ buffer' = <<>> /\ s_file_hashes' = EmptyMap /\ sent_log' = <<>>
  /\ completion_received' = FALSE
  /\ s2r' = <<>> /\ r2s' = <<>> /\ sclosed' = FALSE /\ rclosed' = FALSE
  /\ rpc' = "r_read_key" /\ rkey' = NoKey /\ metadata' = NoMetadata
  /\ has_existing_lock' = FALSE /\ safe_files_info' = <<>>
  /\ resume_bytes_dict' = [n \in {} |-> 0]
  /\ chunk' = <<>> /\ chunk_offset' = 0 /\ stream_position' = 0
  /\ total_bytes_received' = 0 /\ file_hashes' = NoHashes
  /\ failed_files' = <<>> /\ retry_attempt' = 0 /\ completion_sent' = FALSE
  /\ writers' = [n \in AllNames |-> NoWriter] /\ writer_order' = <<>>
  /\ lm' = NewLockManager /\ overwrite_mode' = FALSE
  /\ UNCHANGED <<use_compression, peer, rtoken, lock_file, parts,
                 finals, client_sent, save_vars>>

\* A sender that holds the token but is not send_files: the handshake of
\* send_files, then metadata of its choice, then nothing
ServerSendMetadata ==
  /\ peer = "server" /\ spc = "s_wait_response" /\ r2s # <<>>
  /\ r2s' = Tail(r2s)
  /\ \E md \in ServerMetadatas : s2r' = Append(s2r, Enc(skey, Json(md)))
  /\ spc' = "v_sent"
  /\ UNCHANGED <<env_vars, skey, response, ready_signal, sidx, spos, buffer,
                 s_file_hashes, sent_log, completion_received, sclosed, rclosed,
                 recv_vars, world_vars, client_sent>>

ServerClose ==
  /\ peer = "server" /\ spc = "v_sent" /\ ~sclosed
  /\ sclosed' = TRUE
  /\ UNCHANGED <<env_vars, sender_vars, s2r, r2s, rclosed, recv_vars,
                 world_vars, client_sent>>

\* A client that is not receive_files: it sends a public key, then any
\* response, any READY token, and control records of its choice
ClientSendKey ==
  /\ peer = "client" /\ spc = "s_read_key" /\ r2s = <<>> /\ ~rclosed
  /\ r2s' = <<Plain([fmt |-> "pubkey"])>>
  /\ UNCHANGED <<env_vars, sender_vars, s2r, sclosed, rclosed, recv_vars,
                 world_vars, client_sent>>

ClientRespond ==
  /\ peer = "client" /\ spc = "s_wait_response" /\ r2s = <<>> /\ ~rclosed
  /\ \E t \in Tokens :
       r2s' = <<Plain(DigestBody(ChallengeResponse(Challenge, t)))>>
  /\ UNCHANGED <<env_vars, sender_vars, s2r, sclosed, rclosed, recv_vars,
                 world_vars, client_sent>>

ClientReady ==
  /\ peer = "client" /\ spc = "s_wait_ready" /\ r2s = <<>> /\ ~rclosed
  /\ \E text \in {"READY", "READX"} : r2s' = <<Plain(ReadyBody(text))>>
  /\ UNCHANGED <<env_vars, sender_vars, s2r, sclosed, rclosed, recv_vars,
                 world_vars, client_sent>>

ClientRecords ==
  { EncSegs(DeriveSessionKey(SenderToken), Json(CompletionObj)),
    EncSegs(DeriveSessionKey("bad"), Json(CompletionObj)),
    EncSegs(DeriveSessionKey(SenderToken), Json(RetryObj(<<"zz">>, 1))),
    EncSegs(DeriveSessionKey(SenderToken), Json(RetryObj(<<"a">>, 1))),
    EncSegs(DeriveSessionKey(SenderToken), Json(ResendObj(0))) }

ClientControl ==
  /\ peer = "client" /\ spc \in {"s_stream", "s_post"} /\ ~rclosed
  /\ client_sent < MaxClientMsgs
  /\ client_sent' = client_sent + 1
  /\ \E m \in ClientRecords : r2s' = r2s \o m
  /\ UNCHANGED <<env_vars, sender_vars, s2r, sclosed, rclosed, recv_vars,
                 world_vars>>

ClientClose ==
  /\ peer = "client" /\ ~rclosed
  /\ rclosed' = TRUE
  /\ UNCHANGED <<env_vars, sender_vars, s2r, r2s, sclosed, recv_vars,
                 world_vars, client_sent>>

Next ==
  \/ SenderSendKey \/ SenderRecvKey \/ SenderCheckResponse \/ SenderRecvReady
  \/ SenderReadyTimeout \/ SenderHandshakeEOF \/ SenderBrokenPipe
  \/ ConnectionLost
  \/ SenderReadChunk \/ SenderFinish \/ SenderPostRead \/ SenderPostStop
  \/ RecvSenderKey \/ RecvChallenge \/ RecvMetadata \/ AnswerResume
  \/ AnswerOverwrite \/ RecvHandshakeFail \/ RecvStreamRecord \/ RecvWriteStep
  \/ RecvVerify \/ RecvRetryStart \/ RecvRetryRecord \/ RecvRetryReadFails
  \/ RecvComplete \/ RecvSendCompletion \/ RecvShutdown \/ RecvStreamTimeout \/ RecvStreamEOF
  \/ Kill \/ Interrupt \/ Restart \/ ServerSendMetadata \/ ServerClose
  \/ ClientSendKey \/ ClientRespond \/ ClientReady \/ ClientControl \/ ClientClose

Spec == Init /\ [][Next]_vars
\* --------------------------------------- the lock manager, call by call
\* TransferLockManager driven one call at a time, _save_lock_file taken one
\* file operation at a time; the process may be killed between any two.
MaxDeferred == 2
\* the statuses the calls pass: a file under way, complete, failed; inside
\* defer mode: a writer opened fresh or on a complete file
Statuses == {"in_progress", "completed", "failed"}
DeferredStatuses == {"pending", "completed"}
session_vars == <<files, use_compression, peer, rtoken, batch_changed,
                  sender_vars, wire_vars, recv_vars, writers, writer_order,
                  parts, finals, overwrite_mode, client_sent>>

LockInit ==
  /\ peer = "receiver"
  /\ files = << File("a", <<0, 1, 1, 0, 1>>), File("b", <<1>>) >>
  /\ use_compression = FALSE /\ rtoken = SenderToken
  /\ runs = 1 /\ batch_changed = FALSE
  /\ SenderInit /\ WireInit /\ ReceiverInit
  /\ lock_file = NoLock
  /\ lock_tmp = NoTmp /\ lock_written = "whole" /\ lpc = "new" /\ call = NoCall
  /\ parts = [n \in AllNames |-> NoFile]
  /\ finals = [n \in AllNames |-> [k \in RenameSlots |-> NoFile]]
  /\ client_sent = 0

Called(op) == [NoCall EXCEPT !.op = op]

\* create_lock_file up to its call of _save_lock_file
LMCreateLockFile ==
  /\ lpc = "new"
  /\ lm' = [lm EXCEPT !.lock_data = NewLockData(FilesMetadata(files, 0))]
  /\ call' = Called("create_lock_file")
  /\ lpc' = "save_open"
  /\ UNCHANGED <<runs, lock_file, lock_tmp, lock_written, session_vars>>

\* update_file_status up to its call of _save_lock_file, if it makes one
LMUpdateFileStatus ==
  /\ lpc = "idle"
  /\ lm.defer_mode => Len(lm.deferred) < MaxDeferred
  /\ \E filename \in Names \cup {"zz"},
        status \in (IF lm.defer_mode THEN DeferredStatuses ELSE Statuses),
        force_save \in BOOLEAN, e \in BOOLEAN :
       LET elapsed == Elapsed(lm, e)
           c == [op |-> "update_file_status", filename |-> filename,
                 status |-> status, force_save |-> force_save,
                 elapsed |-> elapsed, flushed |-> FALSE]
       IN IF ~lm.lock_data.present \/ filename \notin DOMAIN lm.lock_data.files
          THEN /\ call' = Called("ignored")
               /\ UNCHANGED <<lm, lpc>>
          ELSE IF lm.defer_mode
          THEN /\ lm' = [lm EXCEPT !.deferred =
                           Append(@, [filename |-> filename, status |-> status,
                                      transferred_bytes |-> 1,
                                      partial_hash |-> NoHash])]
               /\ call' = Called("deferred")
               /\ UNCHANGED lpc
          ELSE LET W1 == BufferUpdate(CurW, filename, status, 1, NoHash)
               IN /\ lm' = W1.lm
                  /\ call' = c
                  /\ lpc' = IF MustFlush(W1.lm.pending, status, force_save, elapsed)
                            THEN "save_open" ELSE "idle"
  /\ UNCHANGED <<runs, lock_file, lock_tmp, lock_written, session_vars>>

\* enable_defer_mode
LMEnableDeferMode ==
  /\ lpc = "idle" /\ ~lm.defer_mode
  /\ lm' = [lm EXCEPT !.defer_mode = TRUE, !.deferred = <<>>]
  /\ call' = Called("enable_defer_mode")
  /\ UNCHANGED <<runs, lpc, lock_file, lock_tmp, lock_written, session_vars>>

\* an apply loop that runs from the newest update to the oldest
RECURSIVE ApplyDeferredReversed(_, _)
ApplyDeferredReversed(lock_data, deferred) ==
  IF deferred = <<>> THEN lock_data
  ELSE LET u == deferred[Len(deferred)]
           applied ==
             IF u.filename \in DOMAIN lock_data.files
             THEN [lock_data EXCEPT
                     !.files[u.filename].status = u.status,
                     !.files[u.filename].transferred_bytes = u.transferred_bytes,
                     !.files[u.filename].partial_hash =
                         IF u.partial_hash.set THEN u.partial_hash ELSE @]
             ELSE lock_data
       IN ApplyDeferredReversed(applied, SubSeq(deferred, 1, Len(deferred) - 1))

\* flush_deferred_updates, lines 1373-1380: the buffered updates in order
RECURSIVE ApplyDeferred(_, _)
ApplyDeferred(lock_data, deferred) ==
  IF deferred = <<>> THEN lock_data
  ELSE LET u == deferred[1]
           applied ==
             IF u.filename \in DOMAIN lock_data.files
             THEN [lock_data EXCEPT
                     !.files[u.filename].status = u.status,
                     !.files[u.filename].transferred_bytes = u.transferred_bytes,
                     !.files[u.filename].partial_hash =
                         IF u.partial_hash.set THEN u.partial_hash ELSE @]
             ELSE lock_data
       IN ApplyDeferred(applied, Tail(deferred))

\* flush_deferred_updates up to its call of _save_lock_file
LMFlushDeferredUpdates ==
  /\ lpc = "idle" /\ lm.defer_mode
  /\ IF lm.deferred = <<>>
     THEN /\ lm' = [lm EXCEPT !.defer_mode = FALSE]
          /\ call' = Called("ignored")
          /\ UNCHANGED lpc
     ELSE /\ lm' = [lm EXCEPT !.lock_data = ApplyDeferred(@, lm.deferred)]
          /\ call' = Called("flush_deferred_updates")
          /\ lpc' = "save_open"
  /\ UNCHANGED <<runs, lock_file, lock_tmp, lock_written, session_vars>>

\* _save_lock_file: open(temp_path, 'w') creates or truncates the .tmp file
SaveOpenTemp ==
  /\ lpc = "save_open"
  /\ lock_tmp' = [state |-> "open", doc |-> lm.lock_data]
  /\ lpc' = "save_write"
  /\ UNCHANGED <<runs, lm, lock_file, lock_written, call, session_vars>>

\* _save_lock_file: json.dump writes the document piece by piece
SaveWriteTemp ==
  /\ lpc = "save_write" /\ lock_tmp.state \in {"open", "part"}
  /\ lock_tmp' = [lock_tmp EXCEPT !.state = IF @ = "open" THEN "part" ELSE "whole"]
  /\ UNCHANGED <<runs, lm, lock_file, lock_written, lpc, call, session_vars>>

\* a rename inside the with block, before the document is written out
RenameReadyEarly(tmp) == tmp.state \in {"part", "whole"}

\* _save_lock_file: the rename follows the end of the with block
RenameReady(tmp) == tmp.state = "whole"

\* _save_lock_file: temp_path.rename(lock_file_path), then the rest of the
\* caller (_flush_pending_updates 1355-1356, flush_deferred_updates 1384-1386)
SaveRename ==
  /\ lpc = "save_write" /\ RenameReady(lock_tmp)
  /\ lock_file' = lock_tmp.doc
  /\ lock_written' = lock_tmp.state
  /\ lock_tmp' = NoTmp
  /\ lm' = IF call.op = "update_file_status"
           THEN [lm EXCEPT !.pending = {}, !.saved_once = TRUE]
           ELSE IF call.op = "flush_deferred_updates"
           THEN [lm EXCEPT !.deferred = <<>>, !.defer_mode = FALSE,
                           !.saved_once = TRUE]
           ELSE lm
  /\ call' = [call EXCEPT !.flushed = TRUE]
  /\ lpc' = "idle"
  /\ UNCHANGED <<runs, session_vars>>

\* cleanup_on_completion
LMCleanupOnCompletion ==
  /\ lpc = "idle" /\ lock_file.present
  /\ lock_file' = CleanupOnCompletion(CurW).lock_file
  /\ call' = Called("cleanup_on_completion")
  /\ UNCHANGED <<runs, lm, lpc, lock_tmp, lock_written, session_vars>>

\* the process is killed, between two calls or between two steps of a save
LMCrash ==
  /\ lpc \in {"idle", "save_open", "save_write"} /\ runs < MaxRuns
  /\ lpc' = "crashed"
  /\ call' = NoCall
  /\ UNCHANGED <<runs, lm, lock_file, lock_tmp, lock_written, session_vars>>

\* a new process: __init__ and load_existing_lock (a document that does not
\* parse is ignored)
LMRestart ==
  /\ lpc = "crashed"
  /\ runs' = runs + 1
  /\ LET loaded == lock_file.present /\ lock_written = "whole"
     IN /\ lm' = [NewLockManager EXCEPT
                    !.lock_data = IF loaded THEN lock_file ELSE NoLock]
        /\ lpc' = IF loaded THEN "idle" ELSE "new"
  /\ UNCHANGED <<lock_file, lock_tmp, lock_written, call, session_vars>>

LockNext ==
  \/ LMCreateLockFile \/ LMUpdateFileStatus \/ LMEnableDeferMode
  \/ LMFlushDeferredUpdates \/ SaveOpenTemp \/ SaveWriteTemp \/ SaveRename
  \/ LMCleanupOnCompletion \/ LMCrash \/ LMRestart

LockSpec == LockInit /\ [][LockNext]_vars

\* ------------------------------------------------------------ properties
EmittedIn(log, kind) == \E i \in 1..Len(log) : log[i].kind = kind
StreamKinds == {"data", "hashmap", "end"}
EmittedStream == \E i \in 1..Len(sent_log) : sent_log[i].kind \in StreamKinds
CountIn(log, kind) == Cardinality({i \in 1..Len(log) : log[i].kind = kind})

\* some final path of the file holds exactly these bytes
WrittenExactly(f) == \E k \in RenameSlots : finals[f.name][k] = FileOf(f.data)
\* some final path of the file exists with the metadata's size
FinalHasSize(info) ==
  \E k \in RenameSlots : /\ finals[info.filename][k].exists
                         /\ Len(finals[info.filename][k].data) = info.size
GoodResponse == Plain(DigestBody(Sha256(<<Challenge, TokenBytes(SenderToken)>>)))

\* C1: whenever the receiver has sent the Completion Signal, every file of
\* the batch is in the output directory with exactly the bytes the sender read.
C1_CompletionMeansAllWritten ==
  completion_sent => \A i \in 1..Len(files) : WrittenExactly(files[i])

\* C2: a receiver killed mid-stream and run again over the lock file and the
\* .part files it left, the resume accepted, ends with every file
\* byte-identical to the sender's.
C2_ResumedRunWritesAll ==
  (runs > 1 /\ ~batch_changed /\ has_existing_lock /\ rpc = "r_done")
    => \A i \in 1..Len(files) : WrittenExactly(files[i])

\* C3: after a successful receive every file of the metadata exists at a
\* final path with the size the metadata gives.
C3_SuccessMeansFinalSizes ==
  rpc = "r_done" =>
    \A i \in 1..Len(metadata.files) : FinalHasSize(metadata.files[i])

\* C4: after a successful receive every file of size 0 has been created, its
\* writer is complete and its lock entry is "completed".
C4_EmptyFilesCreated ==
  rpc = "r_done" =>
    \A i \in 1..Len(metadata.files) :
      metadata.files[i].size = 0 =>
        /\ FinalHasSize(metadata.files[i])
        /\ writers[metadata.files[i].filename].created
        /\ writers[metadata.files[i].filename].is_complete
        /\ metadata.files[i].filename \in DOMAIN lm.lock_data.files
        /\ lm.lock_data.files[metadata.files[i].filename].status = "completed"

\* C5: the sender emits no data block, Hash Map or End Marker before it has
\* read the plaintext READY; on a timeout or on any other token it closes
\* without emitting a stream record, and emits none afterwards.
C5_NoStreamBeforeReady ==
  /\ [](EmittedStream => ready_signal = ReadyBody("READY"))
  /\ []((ready_signal # NoBody /\ ready_signal # ReadyBody("READY"))
          => (spc = "s_closed_ready" /\ sclosed))
  /\ [](spc = "s_closed_ready" => (sclosed /\ ~EmittedStream))
  /\ [][(runs' = runs /\ spc = "s_wait_ready" /\ spc' # spc /\ r2s = <<>>)
          => (spc' \in {"s_closed_ready", "s_error"} /\ sclosed'
              /\ sent_log' = sent_log)]_vars
  /\ [][(runs' = runs /\ spc = "s_closed_ready")
          => (spc' = spc /\ Len(s2r') <= Len(s2r) /\ sent_log' = sent_log)]_vars
C5_ClosedOnOtherToken ==
  /\ ready_signal = ReadyBody("READX")
  /\ spc = "s_closed_ready" /\ sclosed
  /\ EmittedIn(sent_log, "meta") /\ ~EmittedStream

\* C6: the sender sends the Batch Metadata only after it has read the
\* response SHA256(challenge || token); on any other response it closes and
\* sends nothing further.
C6_MetadataOnlyAfterResponse ==
  /\ [](EmittedIn(sent_log, "meta") => response = GoodResponse.pt)
  /\ []((response # NoBody /\ response # GoodResponse.pt)
          => (spc = "s_closed_auth" /\ sclosed))
  /\ [](spc = "s_closed_auth" => (sclosed /\ Len(sent_log) = 2))
  /\ [][spc = "s_closed_auth"
          => (spc' = spc /\ Len(s2r') <= Len(s2r) /\ sent_log' = sent_log)]_vars
C6_ClosedOnOtherResponse ==
  /\ response = DigestBody(ChallengeResponse(Challenge, "bad"))
  /\ spc = "s_closed_auth" /\ sclosed
  /\ Len(s2r) = 2 /\ ~EmittedIn(sent_log, "meta")

\* C7: a receiver holding another token fails at the challenge: it never gets
\* past reading it, it creates no lock file, no .part file and no final file,
\* and the sender never sends the Batch Metadata.
C7_WrongTokenStopsAtChallenge ==
  (peer = "receiver" /\ rtoken # SenderToken) =>
    /\ rpc \in {"r_read_key", "r_read_challenge", "r_auth_failed", "r_exit1"}
    /\ lock_file = NoLock
    /\ \A n \in AllNames : ~parts[n].exists
    /\ \A n \in AllNames : \A k \in RenameSlots :
         finals[n][k].exists =>
           (n = files[1].name /\ k = 0 /\ finals[n][k] = FileOf(OldData))
    /\ ~EmittedIn(sent_log, "meta")
    /\ metadata = NoMetadata
C7_WrongTokenFailed ==
  /\ peer = "receiver" /\ rtoken # SenderToken
  /\ rpc = "r_auth_failed" /\ rclosed
  /\ EmittedIn(sent_log, "challenge")

\* C8: the sender writes its public key before it reads the peer's, the
\* receiver reads before it writes, so the two are never both blocked in a
\* read of the handshake; each side holds its session key before the
\* challenge is sent, respectively read.
C8_KeyExchangeOrder ==
  /\ spc # "s_send_key" => (sent_log # <<>> /\ sent_log[1].kind = "key")
  /\ (peer = "receiver" /\ rpc = "r_read_key") => r2s = <<>>
  /\ ~(/\ peer = "receiver" /\ ~sclosed /\ ~rclosed
       /\ spc \in {"s_read_key", "s_wait_response", "s_wait_ready"} /\ r2s = <<>>
       /\ rpc \in {"r_read_key", "r_read_challenge", "r_read_metadata"} /\ s2r = <<>>)
  /\ EmittedIn(sent_log, "challenge") => skey = DeriveSessionKey(SenderToken)
  /\ (peer = "receiver" /\ rpc = "r_read_challenge")
       => (rkey = DeriveSessionKey(rtoken) /\ rkey # NoKey)
C8_ChallengeInFlight ==
  /\ peer = "receiver" /\ spc = "s_wait_response" /\ rpc = "r_read_challenge"
  /\ s2r # <<>> /\ Head(s2r) = Enc(skey, ChallengeBody)
  /\ rkey # NoKey /\ skey # NoKey

\* C9: in every attempt, the main stream and each retry, the sender emits
\* data blocks, then one Hash Map, then one End Marker: a Hash Map is followed
\* at once by the End Marker, an End Marker follows a Hash Map, and while the
\* main stream runs neither has been emitted.
C9_AttemptOrder ==
  /\ \A i \in 1..Len(sent_log) :
       /\ sent_log[i].kind = "hashmap"
            => (i = Len(sent_log) \/ sent_log[i + 1].kind = "end")
       /\ sent_log[i].kind = "end"
            => (i > 1 /\ sent_log[i - 1].kind = "hashmap")
  /\ spc = "s_stream" => (~EmittedIn(sent_log, "hashmap") /\ ~EmittedIn(sent_log, "end"))
  /\ CountIn(sent_log, "hashmap") = CountIn(sent_log, "end")
  /\ spc \in {"s_post", "s_confirmed", "s_unconfirmed"} => CountIn(sent_log, "end") >= 1
C9_TwoAttempts ==
  /\ spc = "s_post" /\ CountIn(sent_log, "end") = 2
  /\ CountIn(sent_log, "data") >= 2

\* C10: the receiver leaves the forward stream for verification only when
\* the plaintext it has counted equals total_size.
C10_StreamEndsAtTotalSize ==
  rpc \in {"r_verify", "r_retry", "r_retry_recv", "r_complete", "r_send_completion",
           "r_shutdown", "r_done"}
    => total_bytes_received = metadata.total_size

\* the receiver is past the READY it sends at the end of its setup
ReadySent ==
  rpc \in {"r_stream", "r_write", "r_verify", "r_retry", "r_retry_recv",
           "r_complete", "r_send_completion",
           "r_shutdown", "r_done"}

\* the offset of entry i is the sum of the sizes before it
RECURSIVE SizesBefore(_, _)
SizesBefore(files_info, i) ==
  IF i <= 1 THEN 0 ELSE files_info[i - 1].size + SizesBefore(files_info, i - 1)

ValidMetadata(md) ==
  /\ md.type = "stream"
  /\ \A i \in 1..Len(md.files) :
       /\ ~IsUnsafe(md.files[i].filename)
       /\ md.files[i].offset = SizesBefore(md.files, i)
  /\ \A i, j \in 1..Len(md.files) :
       md.files[i].filename = md.files[j].filename => i = j

\* C11: the receiver sends READY only for metadata it has validated: type
\* "stream", every path safe, offsets cumulative over the sizes, no path
\* twice; on any other metadata it ends without READY.
C11_ReadyOnlyForValidMetadata ==
  ReadySent => ValidMetadata(metadata)


HasUnsafePath(md) == \E i \in 1..Len(md.files) : IsUnsafe(md.files[i].filename)

\* C12: a run whose metadata holds an unsafe path (absolute, or with a ".."
\* segment) writes nothing: no lock file, no .part file, no final file.
C12_UnsafeBatchWritesNothing ==
  (runs = 1 /\ HasUnsafePath(metadata)) =>
    /\ ~lock_file.present
    /\ \A n \in AllNames :
         /\ ~parts[n].exists
         /\ \A k \in RenameSlots :
              finals[n][k].exists => finals[n][k] = FileOf(OldData)

\* a metadata record of send_files on the wire
IsMetadataRecord(rec) ==
  rec.kind = "enc" /\ rec.pt.fmt = "json" /\ "files" \in DOMAIN rec.pt.obj

\* C13: in the metadata send_files puts on the wire the first file has
\* offset 0, every later offset is the previous offset plus the previous
\* size, and total_size is the sum of the sizes.
C13_SenderOffsetsCumulative ==
  peer # "server" =>
    \A k \in 1..Len(s2r) :
      IsMetadataRecord(s2r[k]) =>
        LET md == s2r[k].pt.obj
        IN /\ md.files # <<>> => md.files[1].offset = 0
           /\ \A i \in 2..Len(md.files) :
                md.files[i].offset = md.files[i - 1].offset + md.files[i - 1].size
           /\ md.total_size = SizesBefore(md.files, Len(md.files) + 1)
\* metadata of two files, the second one behind a non-empty first, in flight
C13_TwoFileMetadataInFlight ==
  /\ peer # "server"
  /\ \E k \in 1..Len(s2r) :
       /\ IsMetadataRecord(s2r[k])
       /\ Len(s2r[k].pt.obj.files) = 2
       /\ s2r[k].pt.obj.files[2].offset = 5
       /\ s2r[k].pt.obj.total_size = 6

\* the class the rule gives an incoming file
RuleClass(lock_data, info) ==
  IF info.filename \notin DOMAIN lock_data.files THEN "fresh"
  ELSE LET lock_info == lock_data.files[info.filename]
       IN IF lock_info.size # info.size THEN "fresh"
          ELSE IF lock_info.status = "completed" THEN "completed"
          ELSE IF lock_info.status = "in_progress" /\ lock_info.transferred_bytes > 0
          THEN "resume"
          ELSE "fresh"

PlanClasses(plan, n) ==
  (IF n \in plan.completed_files THEN {"completed"} ELSE {})
    \cup (IF n \in DOMAIN plan.resume_files THEN {"resume"} ELSE {})
    \cup (IF n \in plan.fresh_files THEN {"fresh"} ELSE {})

\* C14: get_resume_plan puts every incoming file in exactly one class: fresh
\* when the lock's size differs; else completed when the lock says completed;
\* else resume, at transferred_bytes, when in_progress with transferred_bytes
\* above 0; else (also when the lock does not list it) fresh. A lock entry
\* that is not in the incoming metadata is in no class.
C14_ResumePlanClasses ==
  (lm.lock_data.present /\ metadata.type = "stream") =>
    LET plan == GetResumePlan(lm.lock_data, metadata.files)
    IN /\ \A n \in FileNames(metadata.files) :
            /\ PlanClasses(plan, n) =
                 {RuleClass(lm.lock_data, InfoOf(metadata.files, n))}
            /\ n \in DOMAIN plan.resume_files =>
                 plan.resume_files[n] = lm.lock_data.files[n].transferred_bytes
       /\ \A n \in DOMAIN lm.lock_data.files \ FileNames(metadata.files) :
            PlanClasses(plan, n) = {}
\* the receiver asks about a lock in which one file has a different size and
\* another is not in the incoming metadata
C14_PlanOverChangedBatch ==
  /\ rpc = "r_prompt_resume"
  /\ \E n \in FileNames(metadata.files) :
       /\ n \in DOMAIN lm.lock_data.files
       /\ lm.lock_data.files[n].size # InfoOf(metadata.files, n).size
       /\ lm.lock_data.files[n].status = "in_progress"
       /\ lm.lock_data.files[n].transferred_bytes > 0
  /\ DOMAIN lm.lock_data.files \ FileNames(metadata.files) # {}

EntryInBounds(entry) ==
  /\ entry.transferred_bytes <= entry.size
  /\ entry.status = "completed" => entry.transferred_bytes = entry.size

\* C15: in a fresh or a resumed session every entry of the lock, in memory
\* and on disk, has transferred_bytes <= size, and a completed entry has
\* transferred_bytes = size.
C15_LockEntriesInBounds ==
  /\ \A n \in DOMAIN lm.lock_data.files : EntryInBounds(lm.lock_data.files[n])
  /\ \A n \in DOMAIN lock_file.files : EntryInBounds(lock_file.files[n])

\* the SHA-256 of the file the sender holds under a name: the hash of the
\* Hash Map, the only one verification accepts
SenderHash(n) ==
  LET hits == {i \in 1..Len(files) : files[i].name = n}
  IN IF hits = {} THEN NoHash
     ELSE SomeHash(Sha256(files[CHOOSE i \in hits : TRUE].data))

EntryVerified(n, entry) ==
  entry.status = "completed" <=>
    /\ entry.transferred_bytes = entry.size
    /\ entry.partial_hash.set
    /\ entry.partial_hash = SenderHash(n)

\* C16: a lock entry, in memory and on disk, is completed exactly when its
\* transferred_bytes equals its size and its partial_hash is the SHA-256
\* verification accepts for the file.
C16_CompletedMeansVerified ==
  /\ \A n \in DOMAIN lm.lock_data.files : EntryVerified(n, lm.lock_data.files[n])
  /\ \A n \in DOMAIN lock_file.files : EntryVerified(n, lock_file.files[n])

\* C17: when the receiver has gone through its completion step and ended,
\* the output directory holds no lock file.
C17_NoLockAfterSuccess ==
  rpc = "r_done" => ~lock_file.present

\* C19: on success the receiver sends the Completion Signal, then shuts down
\* its write side, then removes the lock file: the lock file is there while
\* the signal is sent and until the shutdown, and the shutdown follows a sent
\* signal.
C19_LockRemovedLast ==
  /\ rpc \in {"r_complete", "r_send_completion", "r_shutdown"} => lock_file.present
  /\ rpc = "r_shutdown" => completion_sent

\* C18: at every instant, a kill between two steps of a save included, the
\* lock-file path is absent or holds a whole lock document, never a part of
\* one.
C18_LockFileWhole ==
  lock_file.present => lock_written = "whole"
\* killed with the .tmp file half written, beside an older lock file
C18_KilledInsideSave ==
  /\ lpc = "crashed"
  /\ lock_tmp.state = "part"
  /\ lock_file.present /\ lock_file # lock_tmp.doc

\* the conditions the flush of update_file_status is tied to
FlushTrigger ==
  \/ call.status \in {"completed", "failed"}
  \/ Cardinality(lm.pending) >= max_pending
  \/ call.elapsed
  \/ call.force_save

AfterDeferred(entry, deferred, n) ==
  LET hits == {i \in 1..Len(deferred) : deferred[i].filename = n}
      last == CHOOSE i \in hits : \A j \in hits : j <= i
  IN IF hits = {} THEN entry
     ELSE [entry EXCEPT !.status = deferred[last].status,
                        !.transferred_bytes = deferred[last].transferred_bytes]

\* C21: in defer mode update_file_status writes nothing to disk, whatever the
\* status, and leaves the lock entries in memory as they are;
\* flush_deferred_updates applies the deferred updates in arrival order, saves
\* once, and turns defer mode off.
C21_DeferMode ==
  [][ /\ (lm.defer_mode /\ lpc = "idle" /\ call'.op = "deferred") =>
           /\ lock_file' = lock_file /\ lock_tmp' = lock_tmp /\ lpc' = "idle"
           /\ lm'.lock_data = lm.lock_data
           /\ lm'.defer_mode
      /\ (lpc = "idle" /\ call'.op = "flush_deferred_updates") =>
           /\ lpc' = "save_open" /\ lock_file' = lock_file
           /\ \A n \in DOMAIN lm.lock_data.files :
                lm'.lock_data.files[n] =
                  AfterDeferred(lm.lock_data.files[n], lm.deferred, n)
      /\ (call.op = "flush_deferred_updates" /\ lpc = "save_write" /\ lpc' = "idle") =>
           /\ ~lm'.defer_mode /\ lm'.deferred = <<>>
           /\ lock_file' = lm'.lock_data /\ lock_written' = "whole"
      /\ (call.op = "flush_deferred_updates" /\ call.flushed /\ call' = call) =>
           lock_file' = lock_file /\ lpc' = "idle"
    ]_vars
\* two deferred updates of one file with different statuses are being saved
C21_TwoDeferredOfOneFile ==
  /\ call.op = "flush_deferred_updates" /\ lpc = "save_write"
  /\ Len(lm.deferred) = 2
  /\ lm.deferred[1].filename = lm.deferred[2].filename
  /\ lm.deferred[1].status = "completed" /\ lm.deferred[2].status = "pending"

FailedNames == [i \in 1..Len(failed_files) |-> failed_files[i].filename]

\* C22: after a failed verification the receiver sends one Retry Request as
\* an encrypted framed record, a nonce segment and a ciphertext segment, which
\* the sender decrypts to a retry request whose failed_files are the files
\* that failed verification.
C22_RetryRequestEncrypted ==
  [][(rpc = "r_retry" /\ rpc' = "r_retry_recv") =>
       /\ Len(r2s') = Len(r2s) + 2
       /\ DecryptsSegs(r2s'[Len(r2s) + 1], r2s'[Len(r2s) + 2], skey)
       /\ r2s'[Len(r2s) + 2].pt.fmt = "json"
       /\ Get(r2s'[Len(r2s) + 2].pt.obj, "type", "") = "retry_request"
       /\ Get(r2s'[Len(r2s) + 2].pt.obj, "failed_files", <<>>) = FailedNames
    ]_vars

C24_PartsKeptOnConnectionLoss ==
  [][(rpc = "r_stream" /\ s2r = <<>> /\ sclosed /\ rpc' \notin {rpc, "r_killed"}) =>
       /\ rpc' = "r_exit1"
       /\ \A n \in DOMAIN parts :
            parts[n].exists => (n \in DOMAIN parts' /\ parts'[n] = parts[n])
    ]_vars

\* C25: after an interruption during the forward stream the receiver has
\* exited with the buffered lock updates written: the lock file on disk holds,
\* for every file, the last status and transferred_bytes recorded in memory.
C25_LockFlushedOnInterrupt ==
  (rpc = "r_interrupted" /\ lm.lock_data.present) =>
    /\ lock_file.present
    /\ \A n \in DOMAIN lm.lock_data.files :
         /\ n \in DOMAIN lock_file.files
         /\ lock_file.files[n].status = lm.lock_data.files[n].status
         /\ lock_file.files[n].transferred_bytes =
              lm.lock_data.files[n].transferred_bytes

\* C26: a record that fails AEAD decryption ends the session on the side that
\* read it: when the sender takes an undecryptable record from the receiver
\* (in its resend-request handler or in its wait loop), or the receiver one
\* from the stream, that side ends in that step: it closes its socket, so
\* that it reads no later record and sends no further data.
C26_DecryptFailureEndsSession ==
  [][/\ (/\ spc \in {"s_stream", "s_post"}
         /\ Len(r2s) >= 2 /\ r2s' = SubSeq(r2s, 3, Len(r2s))
         /\ ~DecryptsSegs(r2s[1], r2s[2], skey))
          => sclosed'
     /\ (/\ rpc = "r_stream"
         /\ s2r # <<>> /\ s2r' = Tail(s2r)
         /\ Head(s2r).kind # "end" /\ ~Decrypts(Head(s2r), rkey))
          => rclosed'
    ]_vars

WriterComplete(ws, filename) ==
  IF ws[filename].created THEN ws[filename].is_complete
  ELSE /\ filename \in DOMAIN resume_bytes_dict
       /\ resume_bytes_dict[filename] >= InfoOf(safe_files_info, filename).size

\* the byte of the block at stream position q is in the .part file of the
\* file at q, at file offset q - offset
ByteInPart(ps, q) ==
  LET filename == FileAtOffset(safe_files_info, q)
      at == q - InfoOf(safe_files_info, filename).offset + 1
  IN /\ ps[filename].exists
     /\ at <= Len(ps[filename].data)
     /\ ps[filename].data[at] = chunk[q - stream_position + 1]

\* C28: when the write loop meets a position of a block that no writer
\* accepts, every later byte of that block that lies in the range of an
\* incomplete file is still written to that file at (position - file offset).
C28_RestOfBlockWritten ==
  [][(/\ rpc = "r_write" /\ stream_position' = stream_position + Len(chunk)
      /\ \A n \in DOMAIN writers : writers'[n].written = writers[n].written) =>
       \A q \in (stream_position + chunk_offset + 1)
                  ..(stream_position + Len(chunk) - 1) :
          (/\ FileAtOffset(safe_files_info, q) # ""
           /\ ~WriterComplete(writers', FileAtOffset(safe_files_info, q)))
            => ByteInPart(parts', q)
    ]_vars

\* a file the resume plan gave as completed: its resume bytes are its size
AdoptedComplete(filename) ==
  /\ has_existing_lock
  /\ filename \in DOMAIN resume_bytes_dict
  /\ filename \in FileNames(safe_files_info)
  /\ InfoOf(safe_files_info, filename).size > 0
  /\ resume_bytes_dict[filename] = InfoOf(safe_files_info, filename).size

\* C29: a file adopted as complete on resume has no byte written by its
\* writer, is not in failed_files at verification, and is named in no retry
\* request.
C29_AdoptedFileNotRetried ==
  \A filename \in FileNames(safe_files_info) :
    AdoptedComplete(filename) =>
      /\ writers[filename].written = 0
      /\ \A i \in 1..Len(failed_files) : failed_files[i].filename # filename
      /\ \A k \in 1..Len(r2s) :
           (r2s[k].pt.fmt = "json"
              /\ Get(r2s[k].pt.obj, "type", "") = "retry_request")
             => \A j \in 1..Len(r2s[k].pt.obj.failed_files) :
                  r2s[k].pt.obj.failed_files[j] # filename

\* C30: the record the receiver takes as the Hash Map, in the forward stream
\* or in a retry stream, is a record the sender emitted as the Hash Map, never
\* one it emitted as a data block; in the forward stream it is taken when the
\* bytes received equal total_size.
C30_HashMapByByteCount ==
  [][(/\ rpc \in {"r_stream", "r_retry_recv"} /\ s2r # <<>> /\ s2r' = Tail(s2r)
      /\ file_hashes' # file_hashes) =>
       /\ Head(s2r).pt.fmt = "json"
       /\ rpc = "r_stream" => total_bytes_received = metadata.total_size
    ]_vars

\* C31: the receiver starts verification only by reading the End Marker of
\* the main stream, and re-compares the hashes of a retry attempt only by
\* reading the End Marker of that retry stream.
C31_EndMarkerReadBeforeVerify ==
  [][/\ (rpc = "r_stream" /\ rpc' = "r_verify") =>
          (s2r # <<>> /\ Head(s2r).kind = "end" /\ s2r' = Tail(s2r))
     /\ (rpc = "r_retry_recv" /\ rpc' \in {"r_retry", "r_complete"}) =>
          (s2r # <<>> /\ Head(s2r).kind = "end" /\ s2r' = Tail(s2r))
    ]_vars

\* the contents of the named files of the batch, one after the other
RECURSIVE ContentsOf(_, _)
ContentsOf(batch, names) ==
  IF names = <<>> THEN <<>>
  ELSE LET hit == SelectSeq(batch, LAMBDA f : f.name = names[1])
       IN (IF hit = <<>> THEN <<>> ELSE hit[1].data)
            \o ContentsOf(batch, Tail(names))

\* the bytes of the data blocks among records
RECURSIVE BlockBytes(_)
BlockBytes(records) ==
  IF records = <<>> THEN <<>>
  ELSE (IF records[1].kind = "enc" /\ records[1].pt.fmt \in {"raw", "blosc"}
        THEN records[1].pt.bytes ELSE <<>>) \o BlockBytes(Tail(records))

\* C32: when the sender reads a Retry Request naming files of the batch, it
\* stays in its wait loop and emits the full contents of exactly the named
\* files, in that order, then a Hash Map, then an End Marker.
C32_RetryResendsNamedFiles ==
  [][(/\ spc = "s_post" /\ Len(r2s) >= 2 /\ r2s' = SubSeq(r2s, 3, Len(r2s))
      /\ DecryptsSegs(r2s[1], r2s[2], skey) /\ r2s[2].pt.fmt = "json"
      /\ Get(r2s[2].pt.obj, "type", "") = "retry_request") =>
       LET failed == Get(r2s[2].pt.obj, "failed_files", <<>>)
           new == SubSeq(s2r', Len(s2r) + 1, Len(s2r'))
       IN /\ spc' = "s_post"
          /\ Len(new) >= 2
          /\ new[Len(new)].kind = "end"
          /\ new[Len(new) - 1].pt.fmt = "json"
          /\ BlockBytes(new) = ContentsOf(files, failed)
    ]_vars

\* the file bodies of a batch, in metadata order
RECURSIVE Bodies(_)
Bodies(batch) ==
  IF batch = <<>> THEN <<>> ELSE batch[1].data \o Bodies(Tail(batch))

\* the data blocks the sender logged before its first Hash Map
RECURSIVE BlocksBeforeHashMap(_)
BlocksBeforeHashMap(log) ==
  IF log = <<>> \/ log[1].kind = "hashmap" THEN <<>>
  ELSE (IF log[1].kind = "data" THEN <<log[1].bytes>> ELSE <<>>)
         \o BlocksBeforeHashMap(Tail(log))

RECURSIVE Joined(_)
Joined(blocks) ==
  IF blocks = <<>> THEN <<>> ELSE blocks[1] \o Joined(Tail(blocks))

\* C33: once the Hash Map is emitted, the plaintexts of the data blocks
\* emitted before it, joined in emission order, are the file bodies in
\* metadata order; every block but the last holds exactly BufferSize bytes
\* and the last at most BufferSize, with or without resend requests.
C33_StreamIsFileBodies ==
  EmittedIn(sent_log, "hashmap") =>
    LET blocks == BlocksBeforeHashMap(sent_log)
    IN /\ Joined(blocks) = Bodies(files)
       /\ Len(Joined(blocks)) = SenderMetadata.total_size
       /\ \A i \in 1..Len(blocks) :
            IF i < Len(blocks) THEN Len(blocks[i]) = BufferSize
            ELSE Len(blocks[i]) <= BufferSize

\* ------------------------------------- the writers' dictionary, call by call
\* LazyFileWriterDict over a metadata list with cumulative offsets, asked for
\* the writer at one stream position after another.
MaxSize == 2
\* a call and what it returned
UnitCall(op, filename, data, n) ==
  [op |-> op, filename |-> filename, data |-> data, n |-> n]
Zeros(n) == [i \in 1..n |-> 0]
IndexBatches ==
  { << File("a", Zeros(x)) >> : x \in 0..MaxSize }
  \cup { << File("a", Zeros(x)), File("b", Zeros(y)) >> : x, y \in 0..MaxSize }
  \cup { << File("a", Zeros(x)), File("b", Zeros(y)), File("c", Zeros(z)) >> :
           x, y, z \in 0..MaxSize }
unit_fixed == <<files, use_compression, peer, rtoken, runs, batch_changed,
                sender_vars, wire_vars, rpc, rkey, metadata, has_existing_lock,
                chunk, chunk_offset, total_bytes_received, file_hashes,
                failed_files, retry_attempt, completion_sent, client_sent,
                lock_tmp, lock_written, lpc>>

IndexInit ==
  /\ peer = "receiver" /\ files \in IndexBatches
  /\ use_compression = FALSE /\ rtoken = SenderToken
  /\ runs = 1 /\ batch_changed = FALSE
  /\ SenderInit /\ WireInit
  /\ rpc = "r_stream" /\ rkey = NoKey /\ metadata = BatchMetadata(files, FALSE)
  /\ has_existing_lock = FALSE
  /\ safe_files_info = FilesMetadata(files, 0)
  /\ resume_bytes_dict = [n \in {} |-> 0]
  /\ chunk = <<>> /\ chunk_offset = 0 /\ stream_position = 0
  /\ total_bytes_received = 0 /\ file_hashes = NoHashes
  /\ failed_files = <<>> /\ retry_attempt = 0 /\ completion_sent = FALSE
  /\ writers = [n \in AllNames |-> NoWriter] /\ writer_order = <<>>
  /\ lm = NewLockManager /\ overwrite_mode = FALSE
  /\ lock_file = NoLock
  /\ lock_tmp = NoTmp /\ lock_written = "whole" /\ lpc = "session"
  /\ call = UnitCall("none", "", <<>>, 0)
  /\ parts = [n \in AllNames |-> NoFile]
  /\ finals = [n \in AllNames |-> [k \in RenameSlots |-> NoFile]]
  /\ client_sent = 0

\* get_writer_at_offset(position): the writer found is made on first access
GetWriterAtOffset ==
  /\ \E position \in 0..(metadata.total_size + 1) :
       LET filename == FileAtOffset(safe_files_info, position)
       IN /\ stream_position' = position
          /\ call' = UnitCall("get_writer_at_offset", filename, <<>>, position)
          /\ SetW(IF filename = "" THEN CurW
                  ELSE GetItem(CurW, safe_files_info, resume_bytes_dict,
                               filename, FALSE))
  /\ UNCHANGED <<unit_fixed, safe_files_info, resume_bytes_dict>>

IndexNext == GetWriterAtOffset
IndexSpec == IndexInit /\ [][IndexNext]_vars

\* the entries of a metadata list whose range holds the position
Holders(files_info, position) ==
  {i \in 1..Len(files_info) :
     /\ files_info[i].offset <= position
     /\ position < files_info[i].offset + files_info[i].size}

\* C34: over a metadata list with cumulative offsets, get_writer_at_offset
\* returns the writer of the one file whose range holds the position, None
\* when no file holds it, and names the file get_current_file_info names.
C34_WriterAtOffset ==
  call.op = "get_writer_at_offset" =>
    LET holders == Holders(safe_files_info, call.n)
        linear == GetCurrentFileInfo(call.n, safe_files_info)
    IN /\ Cardinality(holders) <= 1
       /\ holders = {} => (call.filename = "" /\ linear = 0)
       /\ \A i \in holders :
            /\ call.filename = safe_files_info[i].filename
            /\ linear = i
            /\ writers[call.filename].created
            /\ writers[call.filename].offset = safe_files_info[i].offset
            /\ writers[call.filename].size = safe_files_info[i].size

\* the position is the first of a file that follows a zero-size file
C34_AfterZeroSizeFile ==
  /\ call.op = "get_writer_at_offset" /\ call.filename = "c"
  /\ Len(safe_files_info) = 3
  /\ safe_files_info[1].size > 0 /\ safe_files_info[2].size = 0
  /\ call.n = safe_files_info[3].offset

\* ------------------------------------------------ one FileWriter, call by call
\* A FileWriter for the file a of some size, over an output directory that may
\* hold a .part file of an earlier run, driven one method call at a time.
\* Payload bytes are 0 and 1; the bytes an earlier run left are 1s.
Ones(n) == [i \in 1..n |-> 1]
RECURSIVE Payloads(_)
Payloads(n) ==
  IF n = 0 THEN {<<>>}
  ELSE Payloads(n - 1)
         \cup {Append(d, b) : d \in {e \in Payloads(n - 1) : Len(e) = n - 1},
                              b \in {0, 1}}

WriterInit ==
  /\ peer = "receiver" /\ files \in {<< File("a", Zeros(x)) >> : x \in 0..MaxSize}
  /\ use_compression = FALSE /\ rtoken = SenderToken
  /\ runs = 1 /\ batch_changed = FALSE
  /\ SenderInit /\ WireInit
  /\ rpc = "r_stream" /\ rkey = NoKey /\ metadata = BatchMetadata(files, FALSE)
  /\ has_existing_lock = FALSE
  /\ safe_files_info = FilesMetadata(files, 0)
  /\ resume_bytes_dict = [n \in {} |-> 0]
  /\ chunk = <<>> /\ chunk_offset = 0 /\ stream_position = 0
  /\ total_bytes_received = 0 /\ file_hashes = NoHashes
  /\ failed_files = <<>> /\ retry_attempt = 0 /\ completion_sent = FALSE
  /\ writers = [n \in AllNames |->
                  IF n = "a" THEN NewWriter(Len(files[1].data), 0) ELSE NoWriter]
  /\ writer_order = <<"a">>
  /\ lm = NewLockManager
  /\ lock_file = NoLock
  /\ lock_tmp = NoTmp /\ lock_written = "whole" /\ lpc = "session"
  /\ call = UnitCall("__init__", "a", <<>>, 0)
  /\ overwrite_mode \in BOOLEAN
  /\ \E left \in {NoFile} \cup {FileOf(Ones(k)) : k \in 0..MaxSize} :
       parts = [n \in AllNames |-> IF n = "a" THEN left ELSE NoFile]
  /\ finals = [n \in AllNames |-> [k \in RenameSlots |-> NoFile]]
  /\ client_sent = 0

\* a final path is left for a completion (the renames are bounded by the slots)
SlotLeft == overwrite_mode \/ \E k \in RenameSlots : ~finals["a"][k].exists

\* open_for_writing(resume_bytes)
WOpenForWriting ==
  /\ \E resume_bytes \in 0..(MaxSize + 1), e \in BOOLEAN :
       /\ SetW(OpenForWriting(CurW, "a", resume_bytes, e))
       /\ call' = UnitCall("open_for_writing", "a", <<>>, resume_bytes)
  /\ UNCHANGED <<unit_fixed, safe_files_info, resume_bytes_dict, stream_position>>

\* write_chunk(data) and the count it returns
WWriteChunk ==
  /\ SlotLeft
  /\ \E data \in Payloads(MaxSize + 1), e1, e2 \in BOOLEAN :
       LET res == WriteChunk(CurW, "a", data, <<e1, e2>>)
       IN /\ SetW(res.W)
          /\ call' = UnitCall("write_chunk", "a", data, res.n)
  /\ UNCHANGED <<unit_fixed, safe_files_info, resume_bytes_dict, stream_position>>

\* complete_file()
WCompleteFile ==
  /\ SlotLeft
  /\ SetW(CompleteFile(CurW, "a"))
  /\ call' = UnitCall("complete_file", "a", <<>>, 0)
  /\ UNCHANGED <<unit_fixed, safe_files_info, resume_bytes_dict, stream_position>>

\* reset_for_retry()
WResetForRetry ==
  /\ \E e \in BOOLEAN : SetW(ResetForRetry(CurW, "a", e))
  /\ call' = UnitCall("reset_for_retry", "a", <<>>, 0)
  /\ UNCHANGED <<unit_fixed, safe_files_info, resume_bytes_dict, stream_position>>

WriterNext ==
  \/ WOpenForWriting \/ WWriteChunk \/ WCompleteFile \/ WResetForRetry
WriterSpec == WriterInit /\ [][WriterNext]_vars

\* the bytes a writer holds in its .part file
Held(wr, part) ==
  IF wr.written > 0 /\ part.exists THEN SubSeq(part.data, 1, wr.written) ELSE <<>>

C36_OpenForWriting ==
  [][call'.op = "open_for_writing" =>
       LET wr == writers["a"]
           resume_bytes == call'.n
           adopt == /\ resume_bytes > 0 /\ parts["a"].exists
                    /\ Len(parts["a"].data) = resume_bytes
           done == resume_bytes >= wr.size
           adopted == /\ writers'["a"].written = resume_bytes
                      /\ writers'["a"].needs_rehash
           completed == /\ writers'["a"].is_complete
                        /\ parts' = parts /\ finals' = finals
       IN /\ (adopt /\ ~done) => adopted
          /\ (done /\ ~adopt) => completed
          /\ (adopt /\ done) => (adopted \/ completed)
          /\ (~adopt /\ ~done) => writers'["a"].written = 0
    ]_vars

\* the byte strings a writer can be said to hold: nothing when written = 0,
\* else the first `written` bytes of its .part file, or of a final file once
\* the .part file was renamed
HeldBytes(wr, part, final) ==
  IF wr.written = 0 THEN {<<>>}
  ELSE IF ~wr.is_complete
  THEN {SubSeq(part.data, 1, wr.written) : x \in {y \in {part} :
                                             y.exists /\ Len(y.data) >= wr.written}}
  ELSE {SubSeq(final[k].data, 1, wr.written) : k \in {j \in RenameSlots :
                                             /\ final[j].exists
                                             /\ Len(final[j].data) >= wr.written}}

StreamBase == 10
StreamBytes(offset, n) == [i \in 1..n |-> StreamBase + offset + i - 1]
UnsafeNameLists ==
  { <<"../e", "a">>, <<"a", "/e">>, <<"../e", "a", "/e">>, <<"a", "../e", "b">> }
RECURSIVE StreamFiles(_, _)
StreamFiles(names, offset) ==
  IF names = <<>> THEN {<<>>}
  ELSE UNION { { <<File(names[1], StreamBytes(offset, x))>> \o rest :
                   rest \in StreamFiles(Tail(names), offset + x) } :
               x \in 1..MaxSize }
UnsafeBatches == UNION { StreamFiles(names, 0) : names \in UnsafeNameLists }

\* the state when receive_files reads the metadata record of one of the
\* batches; frame is the state of the threads beside the data path
StreamStart(batches, frame) ==
  /\ peer = "server" /\ files \in batches
  /\ use_compression = FALSE /\ rtoken = SenderToken
  /\ runs = 1 /\ batch_changed = FALSE
  /\ spc = "v_sent" /\ skey = DeriveSessionKey(SenderToken)
  /\ sidx = 1 /\ spos = 0
  /\ response = NoBody /\ ready_signal = NoBody
  /\ buffer = <<>> /\ s_file_hashes = EmptyMap /\ sent_log = <<>>
  /\ completion_received = FALSE
  /\ s2r = <<Enc(skey, Json(BatchMetadata(files, FALSE)))>>
  /\ r2s = <<>> /\ sclosed = FALSE /\ rclosed = FALSE
  /\ rpc = "r_read_metadata" /\ rkey = DeriveSessionKey(rtoken)
  /\ metadata = NoMetadata
  /\ has_existing_lock = FALSE /\ safe_files_info = <<>>
  /\ resume_bytes_dict = [n \in {} |-> 0]
  /\ chunk = <<>> /\ chunk_offset = 0 /\ stream_position = 0
  /\ total_bytes_received = 0 /\ file_hashes = NoHashes
  /\ failed_files = <<>> /\ retry_attempt = 0 /\ completion_sent = FALSE
  /\ writers = [n \in AllNames |-> NoWriter] /\ writer_order = <<>>
  /\ lm = NewLockManager /\ overwrite_mode = FALSE
  /\ lock_file = NoLock
  /\ lock_tmp = NoTmp /\ lock_written = "whole" /\ lpc = "session" /\ call = frame
  /\ parts = [n \in AllNames |-> NoFile]
  /\ finals = [n \in AllNames |-> [k \in RenameSlots |-> NoFile]]
  /\ client_sent = 0

StreamInit == StreamStart(UnsafeBatches, NoCall)

\* the sender's stream after READY: the next 1..BufferSize bytes of the
\* bodies, as one encrypted block
ServerSendBlock ==
  /\ peer = "server" /\ spc = "v_sent" /\ r2s # <<>>
  /\ spos < SumSizes(files)
  /\ \E n \in 1..Min(BufferSize, SumSizes(files) - spos) :
       /\ s2r' = Append(s2r, Enc(skey, Raw(SubSeq(Bodies(files), spos + 1, spos + n))))
       /\ spos' = spos + n
  /\ UNCHANGED <<env_vars, spc, skey, response, ready_signal, sidx, buffer,
                 s_file_hashes, sent_log, completion_received, r2s, sclosed,
                 rclosed, recv_vars, world_vars, client_sent>>

StreamNext == RecvMetadata \/ ServerSendBlock \/ RecvStreamRecord \/ RecvWriteStep
StreamSpec == StreamInit /\ [][StreamNext]_vars

\* the stream positions of the unsafe entries' ranges
UnsafePositions ==
  { p \in 0..(metadata.total_size - 1) :
      \E i \in 1..Len(metadata.files) :
         /\ IsUnsafe(metadata.files[i].filename)
         /\ metadata.files[i].offset <= p
         /\ p < metadata.files[i].offset + metadata.files[i].size }
\* the stream positions whose byte some .part or final file holds
WrittenPositions ==
  { d - StreamBase :
      d \in UNION ( { {parts[n].data[i] : i \in 1..Len(parts[n].data)} :
                        n \in AllNames }
                    \cup { {finals[n][k].data[i] : i \in 1..Len(finals[n][k].data)} :
                             n \in AllNames, k \in RenameSlots } ) }

\* C38: no FileWriter is created for a metadata entry whose filename is
\* absolute or contains "..", and no stream byte of such an entry's range is
\* written to a .part or final file, under the unsafe path or in another file.
C38_UnsafeEntryNeverWritten ==
  /\ \A n \in UnsafeNames :
       /\ ~writers[n].created
       /\ ~parts[n].exists
       /\ \A k \in RenameSlots : ~finals[n][k].exists
  /\ UnsafePositions \cap WrittenPositions = {}

\* --------------------------------- the progress thread beside the data path
\* progress_update_thread ticking while receive_files runs its stream loop.
\* Time advances in units of 5 s; the thread reads the clock at each tick.
\* 10 s without progress; the first 5 s after start_time
STALL_TIMEOUT == 2
WarmupTime == 1
MAX_RESEND_ATTEMPTS == 3

\* what the two threads share beside the data path's own state, and the
\* progress thread's locals: the keys of progress_state, the two events,
\* resend_count, the stall timer (idle = now - last_stall_check_time, age =
\* now - start_time, both saturating), the arguments the stall callback was
\* called with, and the value of total_bytes_received with which the data path
\* last passed the top of its loop
MonitorFrame(stall_callback) ==
  [op |-> "start", stall_callback |-> stall_callback,
   warmup_period |-> TRUE, stall_recovery_in_progress |-> FALSE,
   stall_event |-> FALSE, stop_progress |-> FALSE, resend_count |-> 0,
   last_stall_check_bytes |-> 0, idle |-> 0, age |-> 0,
   called_with |-> <<>>, top_at |-> -1]

SafeBatches == StreamFiles(<<"a">>, 0) \cup StreamFiles(<<"a", "b">>, 0)

MonitorInit ==
  \E stall_callback \in BOOLEAN :
     StreamStart(SafeBatches, MonitorFrame(stall_callback))

monitor_fixed == <<files, use_compression, peer, rtoken, runs, batch_changed,
                   lock_tmp, lock_written, lpc, sender_vars, recv_vars,
                   world_vars, client_sent>>
Streaming == rpc \in {"r_stream", "r_write"}

\* the clock moves on by one unit
Tock ==
  /\ Streaming
  /\ call.idle < STALL_TIMEOUT \/ call.age < WarmupTime
  /\ call' = [call EXCEPT !.op = "tock",
                          !.idle = Min(@ + 1, STALL_TIMEOUT),
                          !.age = Min(@ + 1, WarmupTime)]
  /\ UNCHANGED <<monitor_fixed, wire_vars>>

\* handle_stall, the callback of receive_files
HandleStall(frame) ==
  IF frame.resend_count < MAX_RESEND_ATTEMPTS
  THEN [frame EXCEPT !.stall_event = TRUE]
  ELSE [frame EXCEPT !.stop_progress = TRUE]

\* the stall detection of one tick, lines 535-553
StallDetection(frame, current_bytes, position) ==
  LET bytes_since_last_check == current_bytes - frame.last_stall_check_bytes
      fired ==
        IF /\ frame.idle >= STALL_TIMEOUT /\ bytes_since_last_check = 0
           /\ ~frame.stall_recovery_in_progress
        THEN [HandleStall([frame EXCEPT !.stall_recovery_in_progress = TRUE,
                                        !.called_with = Append(@, position)])
                EXCEPT !.idle = 0]
        ELSE frame
  IN IF bytes_since_last_check > 0
     THEN [fired EXCEPT !.idle = 0,
                        !.last_stall_check_bytes = current_bytes,
                        !.stall_recovery_in_progress = FALSE]
     ELSE fired

\* a tick whose callback sends the resend request itself
MonitorTickSends ==
  /\ Streaming /\ ~call.stop_progress
  /\ LET warmup_period == call.warmup_period
         f1 == IF warmup_period /\ call.age < WarmupTime THEN call
               ELSE [call EXCEPT !.warmup_period = FALSE]
         f2 == IF call.stall_callback /\ ~warmup_period
               THEN StallDetection(f1, total_bytes_received, stream_position)
               ELSE f1
     IN /\ call' = [f2 EXCEPT !.op = "tick"]
        /\ r2s' = IF Len(f2.called_with) > Len(call.called_with)
                  THEN r2s \o EncSegs(rkey, Json(ResendObj(stream_position)))
                  ELSE r2s
  /\ UNCHANGED <<monitor_fixed, s2r, sclosed, rclosed>>

\* one turn of the loop of progress_update_thread, lines 486-571
MonitorTick ==
  /\ Streaming /\ ~call.stop_progress
  /\ LET warmup_period == call.warmup_period
         f1 == IF warmup_period /\ call.age < WarmupTime THEN call
               ELSE [call EXCEPT !.warmup_period = FALSE]
         f2 == IF call.stall_callback /\ ~warmup_period
               THEN StallDetection(f1, total_bytes_received, stream_position)
               ELSE f1
     IN call' = [f2 EXCEPT !.op = "tick"]
  /\ UNCHANGED <<monitor_fixed, wire_vars>>

\* lines 2364-2370: the top of the stream loop, before the blocking read
DataTop ==
  /\ rpc = "r_stream" /\ call.top_at # total_bytes_received
  /\ IF call.stall_event
     THEN /\ r2s' = r2s \o EncSegs(rkey, Json(ResendObj(stream_position)))
          /\ call' = [call EXCEPT !.op = "top", !.stall_event = FALSE,
                                  !.resend_count = @ + 1,
                                  !.stall_recovery_in_progress = FALSE,
                                  !.top_at = total_bytes_received]
     ELSE /\ call' = [call EXCEPT !.op = "top", !.top_at = total_bytes_received]
          /\ UNCHANGED r2s
  /\ UNCHANGED <<monitor_fixed, s2r, sclosed, rclosed>>

\* lines 2373-2431: the read returns once the top of the loop is passed
DataRecord == call.top_at = total_bytes_received /\ RecvStreamRecord

MonitorNext ==
  \/ RecvMetadata \/ ServerSendBlock \/ DataTop \/ DataRecord \/ RecvWriteStep
  \/ Tock \/ MonitorTick
MonitorSpec == MonitorInit /\ [][MonitorNext]_vars

BodyOf(n) ==
  LET hits == {i \in 1..Len(files) : files[i].name = n}
  IN IF hits = {} THEN <<>> ELSE files[CHOOSE i \in hits : TRUE].data
IsPrefix(p, d) == Len(p) <= Len(d) /\ SubSeq(d, 1, Len(p)) = p
\* a step of the progress thread
MonitorStep == call'.op = "tick" /\ call' # call

====
